---- MODULE Spec2Model ----
(***************************************************************************)
(* service_robot: a line-oriented dialogue DSL.                            *)
(*   DSLParser::parse        (src/src/parser.rs)      command stream ->    *)
(*                                                    Stage Map            *)
(*   Interpreter::interpret  (src/src/interpreter.rs) DFA walk over the    *)
(*                                                    Stage Map            *)
(*   GlobalEnvironment       (src/src/env.rs)         variables + cursor   *)
(* Strings that the code inspects character by character (speak templates, *)
(* patterns, variable names, input lines) are sequences of one-character   *)
(* strings; stage names are only compared and stay atomic.                 *)
(* Option<T> is a sequence: <<>> is None and <<x>> is Some(x).             *)
(***************************************************************************)
EXTENDS Integers, Sequences, FiniteSets, TLC

VARIABLES
    commands,            \* the commands parse has consumed so far (its input prefix)
    status,              \* parse: let mut status
    current_stage,       \* parse: Option<String>
    current_speak,       \* parse: Option<String>
    current_transition,  \* parse: Option<Transition>
    current_pattern,     \* parse: Option<String>
    stages,              \* DSLParser.stages : HashMap<String, StageBlock>
    parse_result,        \* "Running" | "Ok" | "Parse" | "Panic"
    diag,                \* what error() reported: Option<[line, ctype, arg]>
    env_stage,           \* Interpreter.global_env.stage
    env_values,          \* Interpreter.global_env.values : HashMap<String, Value>
    pc,                  \* where interpret is: "Idle" | "Loop" | "Dispatch" | "Reading"
                         \*   | "Ok" | "Runtime" | "Panic" | "Exited"
    raw_mode,            \* terminal raw mode (crossterm enable/disable_raw_mode)
    events,              \* console events of the stage visit in progress
    source,              \* DSL::run before parse: "Unread" | "Read" | "Scanned" | "Io" | "Scan"
    launch,              \* "call" (DSL::run called directly) or main's match on args:
                         \*   "path" | "prompt" | "usage"
    exit_code,           \* exit status of the process: Option<i32>
    scanner_source,      \* Scanner.source: the text of the script
    scanner_current,     \* Scanner.current
    scan_pos,            \* scan: how many lines of source.lines() the for loop has taken
    scan_commands,       \* scan: let mut commands
    scan_result          \* "Running" | "Ok" | "Scan"

parser_vars == <<commands, status, current_stage, current_speak,
                 current_transition, current_pattern, stages, parse_result, diag>>

interp_vars == <<env_stage, env_values, pc, raw_mode, events>>

scan_vars == <<scanner_source, scanner_current, scan_pos, scan_commands, scan_result>>

run_vars == <<source, launch, exit_code, scan_vars>>

----------------------------------------------------------------------------
(* Bounds of the model *)

\* longest command stream fed to parse
MaxCommands == 8

\* most stage definitions of a script whose run is followed for ever
MaxDefinitions == 2

\* most lines of a script text given to the scanner
MaxLines == 3

\* longest speak template given to format_output on its own
MaxTemplate == 5

----------------------------------------------------------------------------
(* Strings *)

Str_y     == <<"\"", "y", "\"">>
Str_hello == <<"\"", "h", "\"">>
Str_n     == <<"n">>
Str_h     == <<"h">>
Str_hn    == <<"\"", "h", "\"", "+", "n">>
Str_bad   == <<"(">>
EMPTY     == <<"E", "M", "P", "T", "Y">>
\* mutant: the pattern DEFAULT stands for matches one character only
WILDCARD_ONE == <<".">>

WILDCARD  == <<".", "*">>

StageNames == {"initial", "A", "EXIT"}
Speaks     == {Str_hello, Str_n, Str_hn}
Patterns   == {Str_y, EMPTY, Str_bad}
InputVars  == {Str_n, Str_h}

None == <<>>
Some(x) == <<x>>
IsSome(o) == o # <<>>
Unwrap(o) == o[1]

----------------------------------------------------------------------------
(* parser.rs data *)

MatchBlock(pattern, next_stage) == [pattern |-> pattern, next_stage |-> next_stage]

\* mutant: the stage named by NEXT is not kept, the block leads to EXIT
InputBlockToExit(input_var, next_stage) == [input_var |-> input_var, next_stage |-> "EXIT"]

InputBlock(input_var, next_stage) == [input_var |-> input_var, next_stage |-> next_stage]

TransitionMatch(blocks) == [kind |-> "Match", blocks |-> blocks]

TransitionInput(block) == [kind |-> "Input", block |-> block]

StageBlockNew(stage, speak, transition) ==
    [stage |-> stage, speak |-> speak, transition |-> transition]

\* Command::new; the line is the position in the stream (a script without blank lines)
Command(ctype, arg) == [ctype |-> ctype, arg |-> arg, line |-> Len(commands) + 1]

\* HashMap::insert
\* mutant: a key that is present keeps its value
MapInsertIfAbsent(m, k, v) ==
    [x \in DOMAIN m \cup {k} |-> IF x \in DOMAIN m THEN m[x] ELSE v]

MapInsert(m, k, v) == [x \in DOMAIN m \cup {k} |-> IF x = k THEN v ELSE m[x]]

----------------------------------------------------------------------------
(* DSLParser::parse, one action per arm of the match on command.ctype *)

Parsing == source = "Scanned" /\ parse_result = "Running" /\ Len(commands) < MaxCommands

\* return Err(self.error(command.line, what_, "Unexpected Context"))
\* mutant: an error empties the Stage Map
ParseFailRollingBack(cmd) ==
    /\ parse_result' = "Parse"
    /\ diag' = Some([line |-> cmd.line, ctype |-> cmd.ctype, arg |-> cmd.arg])
    /\ stages' = << >>
    /\ UNCHANGED <<status, current_stage, current_speak, current_transition,
                   current_pattern>>

ParseFail(cmd) ==
    /\ parse_result' = "Parse"
    /\ diag' = Some([line |-> cmd.line, ctype |-> cmd.ctype, arg |-> cmd.arg])
    /\ UNCHANGED <<status, current_stage, current_speak, current_transition,
                   current_pattern, stages>>

\* mutant: a STAGE right after SPEAK closes the stage as well
StageAcceptsAfterSpeak(s) == s \in {"Init", "InputNext", "MatchNext", "Speak"}

StageAccepts(s) == s \in {"Init", "InputNext", "MatchNext"}

ParseSTAGE(stage) ==
    LET cmd == Command("STAGE", stage) IN
    /\ Parsing
    /\ commands' = Append(commands, cmd)
    /\ UNCHANGED <<interp_vars, run_vars>>
    /\ IF StageAccepts(status)
         THEN /\ status' = "Stage"
              /\ IF IsSome(current_stage) /\ IsSome(current_speak)
                   THEN IF IsSome(current_transition)
                          THEN /\ stages' = MapInsert(stages, Unwrap(current_stage),
                                      StageBlockNew(Unwrap(current_stage),
                                                    Unwrap(current_speak),
                                                    Unwrap(current_transition)))
                               /\ parse_result' = parse_result
                          ELSE /\ stages' = stages
                               /\ parse_result' = "Panic"
                   ELSE /\ stages' = stages
                        /\ parse_result' = parse_result
              /\ IF parse_result' = "Panic"
                   THEN UNCHANGED <<current_stage, current_speak, current_transition>>
                   ELSE /\ current_stage' = Some(stage)
                        /\ current_speak' = None
                        /\ current_transition' = None
              /\ UNCHANGED <<current_pattern, diag>>
         ELSE ParseFail(cmd)

\* mutant: SPEAK also allowed once a group of the stage is complete
SpeakAcceptsAfterNext(s) == s \in {"Stage", "InputNext", "MatchNext"}

SpeakAccepts(s) == s = "Stage"

ParseSPEAK(speak) ==
    LET cmd == Command("SPEAK", speak) IN
    /\ Parsing
    /\ commands' = Append(commands, cmd)
    /\ UNCHANGED <<interp_vars, run_vars>>
    /\ IF SpeakAccepts(status)
         THEN /\ status' = "Speak"
              /\ current_speak' = Some(speak)
              /\ UNCHANGED <<current_stage, current_transition, current_pattern,
                             stages, parse_result, diag>>
         ELSE ParseFail(cmd)

\* mutant: MATCH also allowed while a group awaits its NEXT
MatchAcceptsInGroup(s) == s \in {"Speak", "MatchNext", "Match", "Default"}

\* mutant: MATCH also allowed after a completed INPUT group
MatchAcceptsAfterInput(s) == s \in {"Speak", "MatchNext", "InputNext"}

MatchAccepts(s) == s \in {"Speak", "MatchNext"}

ParseMATCH(pattern) ==
    LET cmd == Command("MATCH", pattern) IN
    /\ Parsing
    /\ commands' = Append(commands, cmd)
    /\ UNCHANGED <<interp_vars, run_vars>>
    /\ IF MatchAccepts(status)
         THEN /\ status' = "Match"
              /\ current_pattern' = Some(pattern)
              /\ UNCHANGED <<current_stage, current_speak, current_transition,
                             stages, parse_result, diag>>
         ELSE ParseFail(cmd)

DefaultAccepts(s) == s \in {"Speak", "MatchNext"}

ParseDEFAULT ==
    LET cmd == Command("DEFAULT", <<>>) IN
    /\ Parsing
    /\ commands' = Append(commands, cmd)
    /\ UNCHANGED <<interp_vars, run_vars>>
    /\ IF DefaultAccepts(status)
         THEN /\ status' = "Default"
              /\ current_pattern' = Some(WILDCARD)
              /\ UNCHANGED <<current_stage, current_speak, current_transition,
                             stages, parse_result, diag>>
         ELSE ParseFail(cmd)

\* mutant: INPUT also allowed after a completed match group
InputAcceptsAfterMatchNext(s) == s \in {"Speak", "MatchNext"}

InputAccepts(s) == s = "Speak"

ParseINPUT(input_var) ==
    LET cmd == Command("INPUT", input_var) IN
    /\ Parsing
    /\ commands' = Append(commands, cmd)
    /\ UNCHANGED <<interp_vars, run_vars>>
    /\ IF InputAccepts(status)
         THEN /\ status' = "Input"
              /\ current_pattern' = Some(input_var)
              /\ UNCHANGED <<current_stage, current_speak, current_transition,
                             stages, parse_result, diag>>
         ELSE ParseFail(cmd)

\* mutant: the new arm goes to the front of the list
PushArmFront(transition, block) ==
    IF transition.kind = "Match"
      THEN TransitionMatch(<<block>> \o transition.blocks)
      ELSE transition

\* blocks.push(MatchBlock {..}) on an existing Transition::Match; `_ => {}` otherwise
PushArm(transition, block) ==
    IF transition.kind = "Match"
      THEN TransitionMatch(Append(transition.blocks, block))
      ELSE transition

\* the Status::Match | Status::Default arm of NEXT
NextInMatchGroup(next_stage) ==
    IF IsSome(current_pattern)
      THEN IF IsSome(current_transition)
             THEN Some(PushArm(Unwrap(current_transition),
                               MatchBlock(Unwrap(current_pattern), next_stage)))
             ELSE Some(TransitionMatch(<<MatchBlock(Unwrap(current_pattern), next_stage)>>))
      ELSE current_transition

\* mutant: the INPUT group is recorded as a match arm (the code of the arm above)
NextInInputGroupAsMatch(next_stage) ==
    IF IsSome(current_pattern)
      THEN Some(TransitionMatch(<<MatchBlock(Unwrap(current_pattern), next_stage)>>))
      ELSE current_transition

\* the Status::Input arm of NEXT
NextInInputGroup(next_stage) ==
    IF IsSome(current_pattern)
      THEN Some(TransitionInput(InputBlock(Unwrap(current_pattern), next_stage)))
      ELSE current_transition

ParseNEXT(next_stage) ==
    LET cmd == Command("NEXT", next_stage) IN
    /\ Parsing
    /\ commands' = Append(commands, cmd)
    /\ UNCHANGED <<interp_vars, run_vars>>
    /\ IF status \in {"Match", "Default"}
         THEN /\ status' = "MatchNext"
              /\ current_transition' = NextInMatchGroup(next_stage)
              /\ UNCHANGED <<current_stage, current_speak, current_pattern,
                             stages, parse_result, diag>>
         ELSE IF status = "Input"
           THEN /\ status' = "InputNext"
                /\ current_transition' = NextInInputGroup(next_stage)
                /\ UNCHANGED <<current_stage, current_speak, current_pattern,
                               stages, parse_result, diag>>
           ELSE ParseFail(cmd)

\* mutant: a stage whose last group awaits its NEXT is not inserted
ParseEndDroppingOpenStage ==
    /\ source = "Scanned"
    /\ parse_result = "Running"
    /\ IF IsSome(current_stage) /\ IsSome(current_speak)
         THEN IF IsSome(current_transition)
                THEN /\ stages' = IF status \in {"Match", "Default"}
                                    THEN stages
                                    ELSE MapInsert(stages, Unwrap(current_stage),
                                            StageBlockNew(Unwrap(current_stage),
                                                          Unwrap(current_speak),
                                                          Unwrap(current_transition)))
                     /\ parse_result' = "Ok"
                ELSE /\ stages' = stages
                     /\ parse_result' = "Panic"
         ELSE /\ stages' = stages
              /\ parse_result' = "Ok"
    /\ UNCHANGED <<commands, status, current_stage, current_speak,
                   current_transition, current_pattern, diag>>
    /\ UNCHANGED <<interp_vars, run_vars>>

\* after the for loop: flush the last stage, Ok(())
ParseEnd ==
    /\ source = "Scanned"
    /\ parse_result = "Running"
    /\ IF IsSome(current_stage) /\ IsSome(current_speak)
         THEN IF IsSome(current_transition)
                THEN /\ stages' = MapInsert(stages, Unwrap(current_stage),
                            StageBlockNew(Unwrap(current_stage),
                                          Unwrap(current_speak),
                                          Unwrap(current_transition)))
                     /\ parse_result' = "Ok"
                ELSE /\ stages' = stages
                     /\ parse_result' = "Panic"
         ELSE /\ stages' = stages
              /\ parse_result' = "Ok"
    /\ UNCHANGED <<commands, status, current_stage, current_speak,
                   current_transition, current_pattern, diag>>
    /\ UNCHANGED <<interp_vars, run_vars>>


----------------------------------------------------------------------------
(* String primitives of the Rust standard library, on character sequences *)

Quote == "\""

StartsWith(s, c) == Len(s) > 0 /\ s[1] = c

EndsWith(s, c) == Len(s) > 0 /\ s[Len(s)] = c

Contains(s, c) == \E i \in 1..Len(s) : s[i] = c

\* str::trim_start_matches(c)
RECURSIVE TrimStartMatches(_, _)
TrimStartMatches(s, c) ==
    IF StartsWith(s, c) THEN TrimStartMatches(Tail(s), c) ELSE s

\* str::trim_end_matches(c)
RECURSIVE TrimEndMatches(_, _)
TrimEndMatches(s, c) ==
    IF EndsWith(s, c) THEN TrimEndMatches(SubSeq(s, 1, Len(s) - 1), c) ELSE s

\* str::trim_matches(c)
TrimMatches(s, c) == TrimEndMatches(TrimStartMatches(s, c), c)

\* str::trim(): the only whitespace of the model's alphabet is the space
Trim(s) == TrimMatches(s, " ")

\* str::split(c): the parts between the separators, in order
RECURSIVE SplitFrom(_, _, _)
SplitFrom(s, c, part) ==
    IF s = <<>> THEN <<part>>
    ELSE IF Head(s) = c THEN <<part>> \o SplitFrom(Tail(s), c, <<>>)
    ELSE SplitFrom(Tail(s), c, Append(part, Head(s)))

\* mutant: the text is cut at the first separator only
SplitFirst(s, c) ==
    IF \E i \in 1..Len(s) : s[i] = c
      THEN LET i == CHOOSE i \in 1..Len(s) : s[i] = c /\ \A m \in 1..(i - 1) : s[m] # c IN
           <<SubSeq(s, 1, i - 1), SubSeq(s, i + 1, Len(s))>>
      ELSE <<s>>

Split(s, c) == SplitFrom(s, c, <<>>)

----------------------------------------------------------------------------
(* env.rs: Value and GlobalEnvironment *)

Digits == <<"0", "1", "2", "3", "4", "5", "6", "7", "8", "9">>

IsDigit(c) == \E d \in 1..10 : Digits[d] = c

DigitValue(c) == (CHOOSE d \in 1..10 : Digits[d] = c) - 1

RECURSIVE DecimalValue(_)
DecimalValue(s) ==
    IF s = <<>> THEN 0
    ELSE DecimalValue(SubSeq(s, 1, Len(s) - 1)) * 10 + DigitValue(s[Len(s)])

RECURSIVE DecimalDigits(_)
DecimalDigits(n) ==
    IF n < 10 THEN <<Digits[n + 1]>>
    ELSE Append(DecimalDigits(n \div 10), Digits[(n % 10) + 1])

\* str::parse::<f64>() on the model's alphabet (letters, digits, space, quote, + ( . *):
\* a non-empty run of decimal digits is the only text of the model that parses
ParsesAsF64(s) == s # <<>> /\ \A i \in 1..Len(s) : IsDigit(s[i])

\* GlobalEnvironment::string_convert_to_value
string_convert_to_value(s) ==
    IF ParsesAsF64(s)
      THEN [type |-> "Number", number |-> DecimalValue(s), text |-> <<>>]
      ELSE [type |-> "String", number |-> 0, text |-> s]

\* Value::stringify: f64::to_string of a whole number prints no fraction
stringify(v) == IF v.type = "Number" THEN DecimalDigits(v.number) ELSE v.text

\* mutant: a variable that is already defined keeps its first value
defineOnce(values, name, value) ==
    IF name \in DOMAIN values
      THEN values
      ELSE MapInsert(values, name, string_convert_to_value(value))

\* mutant: binding a variable forgets the other variables
defineAlone(values, name, value) == MapInsert(<< >>, name, string_convert_to_value(value))

\* GlobalEnvironment::define
define(values, name, value) == MapInsert(values, name, string_convert_to_value(value))

\* GlobalEnvironment::get
get(values, name) == IF name \in DOMAIN values THEN Some(values[name]) ELSE None

----------------------------------------------------------------------------
(* interpreter.rs: format_output / parse_expression *)

Ok(v) == [ok |-> TRUE, val |-> v]
Err(v) == [ok |-> FALSE, val |-> v]

\* mutant: an undefined variable ends the expression with the parts resolved so far
RECURSIVE ExpressionFromLenient(_, _, _, _)
ExpressionFromLenient(parts, i, result, values) ==
    IF i > Len(parts) THEN Ok(result)
    ELSE LET part == Trim(parts[i]) IN
         IF StartsWith(part, Quote) /\ EndsWith(part, Quote)
           THEN ExpressionFromLenient(parts, i + 1,
                                      result \o TrimMatches(part, Quote), values)
         ELSE IF IsSome(get(values, part))
           THEN ExpressionFromLenient(parts, i + 1,
                                      result \o stringify(Unwrap(get(values, part))), values)
         ELSE Ok(result)

\* the for loop of parse_expression over parts[i..], `result` built so far
RECURSIVE ExpressionFrom(_, _, _, _)
ExpressionFrom(parts, i, result, values) ==
    IF i > Len(parts) THEN Ok(result)
    ELSE LET part == Trim(parts[i]) IN
         IF StartsWith(part, Quote) /\ EndsWith(part, Quote)
           THEN ExpressionFrom(parts, i + 1, result \o TrimMatches(part, Quote), values)
         ELSE IF IsSome(get(values, part))
           THEN ExpressionFrom(parts, i + 1,
                               result \o stringify(Unwrap(get(values, part))), values)
         ELSE Err(part)

parse_expression(speak, values) == ExpressionFrom(Split(speak, "+"), 1, <<>>, values)

format_output(speak, values) ==
    IF StartsWith(speak, Quote) /\ EndsWith(speak, Quote)
      THEN IF Contains(speak, "+")
             THEN parse_expression(speak, values)
             ELSE Ok(TrimMatches(speak, Quote))
      ELSE parse_expression(speak, values)

----------------------------------------------------------------------------
(* The regex crate, as far as the model's patterns use it: literals, `.`,  *)
(* a postfix `*`, the anchors, and the unclosed group that fails to build. *)

UpperCase == <<"A","B","C","D","E","F","G","H","I","J","K","L","M",
               "N","O","P","Q","R","S","T","U","V","W","X","Y","Z">>
LowerCase == <<"a","b","c","d","e","f","g","h","i","j","k","l","m",
               "n","o","p","q","r","s","t","u","v","w","x","y","z">>

ToLower(c) ==
    IF \E i \in 1..26 : UpperCase[i] = c
      THEN LowerCase[CHOOSE i \in 1..26 : UpperCase[i] = c]
      ELSE c

\* format!(r"^{}$", pattern.trim().trim_matches('"'))
RegexSource(pattern) == <<"^">> \o TrimMatches(Trim(pattern), Quote) \o <<"$">>

\* RegexBuilder::build: Err on an unbalanced parenthesis
RECURSIVE GroupsBalanced(_, _)
GroupsBalanced(src, depth) ==
    IF src = <<>> THEN depth = 0
    ELSE IF Head(src) = "(" THEN GroupsBalanced(Tail(src), depth + 1)
    ELSE IF Head(src) = ")" THEN depth > 0 /\ GroupsBalanced(Tail(src), depth - 1)
    ELSE GroupsBalanced(Tail(src), depth)

RegexBuilds(src) == GroupsBalanced(src, 0)

\* one pattern character against one input character, case_insensitive(true)
CharMatches(p, c) == p = "." \/ ToLower(p) = ToLower(c)

\* does src[i..] match text starting at position j
RECURSIVE MatchHere(_, _, _, _)
MatchHere(src, i, text, j) ==
    IF i > Len(src) THEN TRUE
    ELSE IF src[i] = "^" THEN j = 1 /\ MatchHere(src, i + 1, text, j)
    ELSE IF src[i] = "$" THEN j = Len(text) + 1 /\ MatchHere(src, i + 1, text, j)
    ELSE IF i < Len(src) /\ src[i + 1] = "*"
      THEN \E k \in j..(Len(text) + 1) :
              /\ \A m \in j..(k - 1) : CharMatches(src[i], text[m])
              /\ MatchHere(src, i + 2, text, k)
    ELSE /\ j <= Len(text)
         /\ CharMatches(src[i], text[j])
         /\ MatchHere(src, i + 1, text, j + 1)

\* Regex::is_match
is_match(src, text) == \E j \in 1..(Len(text) + 1) : MatchHere(src, 1, text, j)

----------------------------------------------------------------------------
(* interpreter.rs: interpret_match_blocks *)

Found(block) == [res |-> "Ok", block |-> block]
RuntimeErr == [res |-> "Runtime", block |-> <<>>]
Panicked == [res |-> "Panic", block |-> <<>>]
NeedsInput == [res |-> "Read", block |-> <<>>]

\* mutant: only the first arm is compared with EMPTY
EmptyScanFirstOnly(match_, i) ==
    IF match_[1].pattern = EMPTY
      THEN IF Len(match_) = 1 THEN Found(match_[1]) ELSE RuntimeErr
      ELSE NeedsInput

\* mutant: a lone EMPTY arm is not short-circuited, the stage reads input
EmptyScanNoShortcut(match_, i) ==
    IF \E k \in 1..Len(match_) : match_[k].pattern = EMPTY
      THEN IF Len(match_) = 1 THEN NeedsInput ELSE RuntimeErr
      ELSE NeedsInput

\* the first for loop: the EMPTY arm, looked for before any input is read
RECURSIVE EmptyScan(_, _)
EmptyScan(match_, i) ==
    IF i > Len(match_) THEN NeedsInput
    ELSE IF match_[i].pattern = EMPTY
      THEN IF Len(match_) = 1 THEN Found(match_[i]) ELSE RuntimeErr
    ELSE EmptyScan(match_, i + 1)

\* the second for loop: the arms tried in order against the trimmed input
RECURSIVE MatchScan(_, _, _)
MatchScan(match_, i, input_string) ==
    IF i > Len(match_) THEN RuntimeErr
    ELSE LET src == RegexSource(match_[i].pattern) IN
         IF ~RegexBuilds(src) THEN Panicked
         ELSE IF is_match(src, input_string) THEN Found(match_[i])
         ELSE MatchScan(match_, i + 1, input_string)

----------------------------------------------------------------------------
(* interpreter.rs: interpret and read_line *)

\* what the user may type before Enter
Lines == { <<" ", "Y">>, <<"m">>, <<"0", "7">> }

Event(ev, val) == [ev |-> ev, val |-> val]

\* mutant: the next stage is dispatched at once, without looking it up and speaking
AdoptSkippingSpeak(next_stage) ==
    /\ env_stage' = next_stage
    /\ pc' = IF next_stage = "EXIT" THEN "Ok"
             ELSE IF next_stage \in DOMAIN stages THEN "Dispatch" ELSE "Loop"

\* self.global_env.stage = next_stage; if it is "EXIT" break, else loop
\* mutant: adopting the stage that was just visited ends the run
AdoptUnlessRevisit(next_stage) ==
    /\ env_stage' = next_stage
    /\ pc' = IF next_stage = "EXIT" \/ next_stage = env_stage THEN "Ok" ELSE "Loop"

Adopt(next_stage) ==
    /\ env_stage' = next_stage
    /\ pc' = IF next_stage = "EXIT" THEN "Ok" ELSE "Loop"

\* DSL::run calls interpret once parse has returned Ok
InterpretCall ==
    /\ parse_result = "Ok"
    /\ pc = "Idle"
    /\ pc' = "Loop"
    /\ UNCHANGED <<env_stage, env_values, raw_mode, events>>
    /\ UNCHANGED <<parser_vars, run_vars>>

\* mutant: a further call starts from a fresh Runtime Environment
InterpretCallAgainFresh ==
    /\ pc \in {"Ok", "Runtime"}
    /\ pc' = "Loop"
    /\ env_stage' = "initial"
    /\ env_values' = << >>
    /\ UNCHANGED <<raw_mode, events>>
    /\ UNCHANGED <<parser_vars, run_vars>>

\* interpret called once more on the same Interpreter, after it has returned:
\* the loop is entered with global_env as the last call left it
InterpretCallAgain ==
    /\ pc \in {"Ok", "Runtime"}
    /\ pc' = "Loop"
    /\ UNCHANGED <<env_stage, env_values, raw_mode, events>>
    /\ UNCHANGED <<parser_vars, run_vars>>

\* top of the loop: stages.get, format_output, println!, flush
InterpretSpeak ==
    /\ pc = "Loop"
    /\ IF env_stage \notin DOMAIN stages
         THEN /\ pc' = "Runtime"
              /\ events' = <<>>
         ELSE LET speak == format_output(stages[env_stage].speak, env_values) IN
              IF speak.ok
                THEN /\ pc' = "Dispatch"
                     /\ events' = <<Event("lookup", env_stage), Event("output", speak.val)>>
                ELSE /\ pc' = "Runtime"
                     /\ events' = <<Event("lookup", env_stage)>>
    /\ UNCHANGED <<env_stage, env_values, raw_mode>>
    /\ UNCHANGED <<parser_vars, run_vars>>

\* read_line entered: enable_raw_mode, then block on read()
ReadLineBegin ==
    /\ raw_mode' = TRUE
    /\ pc' = "Reading"

\* match &stage.transition: up to the first blocking read, or to the end without one
InterpretDispatch ==
    /\ pc = "Dispatch"
    /\ LET transition == stages[env_stage].transition IN
       IF transition.kind = "Input"
         THEN /\ ReadLineBegin
              /\ UNCHANGED <<env_stage, events>>
         ELSE LET scan == EmptyScan(transition.blocks, 1) IN
              IF scan.res = "Ok"
                THEN /\ Adopt(scan.block.next_stage)
                     /\ events' = Append(events, Event("transition", scan.block.next_stage))
                     /\ UNCHANGED raw_mode
              ELSE IF scan.res = "Runtime"
                THEN /\ pc' = "Runtime"
                     /\ UNCHANGED <<env_stage, raw_mode, events>>
              ELSE /\ ReadLineBegin
                   /\ UNCHANGED <<env_stage, events>>
    /\ UNCHANGED env_values
    /\ UNCHANGED <<parser_vars, run_vars>>

\* read_line returns on Enter (raw mode off); the handler that called it runs on
InterpretEnter(line) ==
    /\ pc = "Reading"
    /\ raw_mode' = FALSE
    /\ LET transition == stages[env_stage].transition IN
       IF transition.kind = "Input"
         THEN /\ env_values' = define(env_values, transition.block.input_var, Trim(line))
              /\ Adopt(transition.block.next_stage)
              /\ events' = events \o <<Event("read", line),
                                       Event("transition", transition.block.next_stage)>>
         ELSE LET found == MatchScan(transition.blocks, 1, Trim(line)) IN
              /\ env_values' = env_values
              /\ IF found.res = "Ok"
                   THEN /\ Adopt(found.block.next_stage)
                        /\ events' = events \o <<Event("read", line),
                                          Event("transition", found.block.next_stage)>>
                   ELSE /\ pc' = found.res
                        /\ env_stage' = env_stage
                        /\ events' = Append(events, Event("read", line))
    /\ UNCHANGED <<parser_vars, run_vars>>

\* mutant: Esc ends the process without restoring the terminal
InterpretEscRaw ==
    /\ pc = "Reading"
    /\ pc' = "Exited"
    /\ UNCHANGED <<env_stage, env_values, raw_mode, events>>
    /\ UNCHANGED <<parser_vars, run_vars>>

\* read_line on Esc: disable_raw_mode, exit(0)
InterpretEsc ==
    /\ pc = "Reading"
    /\ raw_mode' = FALSE
    /\ pc' = "Exited"
    /\ UNCHANGED <<env_stage, env_values, events>>
    /\ UNCHANGED <<parser_vars, run_vars>>

\* mutant: the cursor starts at another stage
InterpreterInitElsewhere ==
    /\ env_stage = "A"
    /\ env_values = << >>
    /\ pc = "Idle"
    /\ raw_mode = FALSE
    /\ events = <<>>

\* Interpreter::new / GlobalEnvironment::new
InterpreterInit ==
    /\ env_stage = "initial"
    /\ env_values = << >>
    /\ pc = "Idle"
    /\ raw_mode = FALSE
    /\ events = <<>>

----------------------------------------------------------------------------

\* DSLParser::new and the locals at the top of parse
ParserInit ==
    /\ commands = <<>>
    /\ status = "Init"
    /\ current_stage = None
    /\ current_speak = None
    /\ current_transition = None
    /\ current_pattern = None
    /\ stages = << >>
    /\ parse_result = "Running"
    /\ diag = None

----------------------------------------------------------------------------
(* scanner.rs: Scanner::scan, on the text of a script.  The run above takes *)
(* the outcome of the scan as given (RunScan); here the scan is made line   *)
(* by line on a text.                                                       *)

Newline == "\n"

KW_MATCH   == <<"M", "A", "T", "C", "H">>
KW_INPUT   == <<"I", "N", "P", "U", "T">>
KW_SPEAK   == <<"S", "P", "E", "A", "K">>
KW_NEXT    == <<"N", "E", "X", "T">>
KW_STAGE   == <<"S", "T", "A", "G", "E">>
KW_DEFAULT == <<"D", "E", "F", "A", "U", "L", "T">>

\* the lines a script text of the model is made of
ScanLineTexts ==
    { <<>>,
      <<" ", " ">>,
      <<" ">> \o KW_NEXT \o <<" ", " ", "A", " ">>,
      KW_SPEAK \o <<" ", "\"", "h", "\"", " ", "+", " ", "n">>,
      KW_DEFAULT,
      KW_DEFAULT \o <<" ", "x">>,
      <<"G", "O", " ", "A">>,
      KW_MATCH }

\* str::lines: the text between the newlines; no last line after a final newline
lines(text) ==
    LET parts == Split(text, Newline) IN
    IF parts[Len(parts)] = <<>> THEN SubSeq(parts, 1, Len(parts) - 1) ELSE parts

\* re.splitn(line, 2) with re = \s+, on a trimmed non-empty line:
\* the text before the first run of blanks, and the text after that run
SplitCommand(line) ==
    LET blanks == {i \in 1..Len(line) : line[i] = " "} IN
    IF blanks = {} THEN <<line, <<>>>>
    ELSE LET first == CHOOSE i \in blanks : \A m \in blanks : i <= m IN
         <<SubSeq(line, 1, first - 1),
           TrimStartMatches(SubSeq(line, first, Len(line)), " ")>>

ScanNone == [kind |-> "None", ctype |-> "", arg |-> <<>>]
ScanOk(ctype, arg) == [kind |-> "Ok", ctype |-> ctype, arg |-> arg]
ScanErr == [kind |-> "Err", ctype |-> "", arg |-> <<>>]

\* Scanner::scan_line
scan_line(line_) ==
    LET line == Trim(line_) IN
    IF line = <<>> THEN ScanNone
    ELSE LET command == SplitCommand(line)[1]
             argument == SplitCommand(line)[2] IN
         CASE command = KW_MATCH -> ScanOk("MATCH", argument)
           [] command = KW_INPUT -> ScanOk("INPUT", argument)
           [] command = KW_SPEAK -> ScanOk("SPEAK", argument)
           [] command = KW_NEXT  -> ScanOk("NEXT", argument)
           [] command = KW_STAGE -> ScanOk("STAGE", argument)
           [] command = KW_DEFAULT ->
                IF argument = <<>> THEN ScanOk("DEFAULT", <<>>) ELSE ScanErr
           [] OTHER -> ScanErr

\* mutant: the line field is the position of the command among the commands
CommandNewCounted(cmd, line) ==
    [ctype |-> cmd.ctype, arg |-> cmd.arg, line |-> Len(scan_commands) + 1]

\* Command::new(cmd, self.current as i32)
CommandNew(cmd, line) == [ctype |-> cmd.ctype, arg |-> cmd.arg, line |-> line]

\* one iteration of `for line in self.source.lines()`
ScanLine ==
    /\ source = "Read"
    /\ scan_result = "Running"
    /\ scan_pos < Len(lines(scanner_source))
    /\ scan_pos' = scan_pos + 1
    /\ scanner_current' = scanner_current + 1
    /\ LET command == scan_line(lines(scanner_source)[scan_pos + 1]) IN
       IF command.kind = "None"
         THEN UNCHANGED <<scan_commands, scan_result, source>>
       ELSE IF command.kind = "Ok"
         THEN /\ scan_commands' = Append(scan_commands,
                                         CommandNew(command, scanner_current'))
              /\ UNCHANGED <<scan_result, source>>
       ELSE /\ scan_result' = "Scan"
            /\ source' = "Scan"
            /\ UNCHANGED scan_commands
    /\ UNCHANGED <<scanner_source, launch, exit_code>>
    /\ UNCHANGED <<parser_vars, interp_vars>>

\* the for loop has run out of lines: Ok(commands)
ScanEnd ==
    /\ source = "Read"
    /\ scan_result = "Running"
    /\ scan_pos = Len(lines(scanner_source))
    /\ scan_result' = "Ok"
    /\ source' = "Scanned"
    /\ UNCHANGED <<scanner_source, scanner_current, scan_pos, scan_commands,
                   launch, exit_code>>
    /\ UNCHANGED <<parser_vars, interp_vars>>

\* Scanner::new(source) and the local of scan, for a text that is not looked into
ScannerInit ==
    /\ scanner_source = <<>>
    /\ scanner_current = 0
    /\ scan_pos = 0
    /\ scan_commands = <<>>
    /\ scan_result = "Running"

\* the lines joined by newlines, with or without a newline after the last one
RECURSIVE JoinLines(_, _)
JoinLines(ls, final_newline) ==
    IF ls = <<>> THEN <<>>
    ELSE IF Len(ls) = 1
      THEN ls[1] \o (IF final_newline THEN <<Newline>> ELSE <<>>)
    ELSE ls[1] \o <<Newline>> \o JoinLines(Tail(ls), final_newline)

\* the script texts of the model
ScanSources ==
    {JoinLines(ls, final_newline) :
        ls \in UNION {[1..n -> ScanLineTexts] : n \in 0..MaxLines},
        final_newline \in BOOLEAN}

\* Scanner::new(source) on the text that DSL::run has read
ScanInit ==
    /\ scanner_source \in ScanSources
    /\ scanner_current = 0
    /\ scan_pos = 0
    /\ scan_commands = <<>>
    /\ scan_result = "Running"
    /\ source = "Read"
    /\ launch = "call"
    /\ exit_code = None

----------------------------------------------------------------------------
(* main.rs: DSL::run before parse, and main around DSL::run *)

RUNTIME_ERROR == 70
PARSE_ERROR == 65
IO_ERROR == 74
COMMAND_LINE_ERROR == 64
SCAN_ERROR == 67

\* exit status of a process whose main returns Err (std::process::Termination)
MAIN_RETURNED_ERR == 1

\* exit status of a process whose main thread panics
MAIN_PANICKED == 101

\* let source = std::fs::read_to_string(path)?;
RunReadSource ==
    /\ launch # "usage"
    /\ source = "Unread"
    /\ source' \in {"Read", "Io"}
    /\ UNCHANGED <<launch, exit_code, scan_vars>>
    /\ UNCHANGED <<parser_vars, interp_vars>>

\* let commands = scanner.scan()?;  (Err(Error::Scan) on a malformed line)
RunScan ==
    /\ source = "Read"
    /\ source' \in {"Scanned", "Scan"}
    /\ UNCHANGED <<launch, exit_code, scan_vars>>
    /\ UNCHANGED <<parser_vars, interp_vars>>

\* what DSL::run has come to: the `?` chain of run, a panic, or exit(0) in read_line
RunResult ==
    IF source \in {"Io", "Scan"} THEN source
    ELSE IF parse_result \in {"Parse", "Panic"} THEN parse_result
    ELSE IF pc \in {"Ok", "Runtime", "Panic", "Exited"} THEN pc
    ELSE "Running"

\* main: the arm `_ =>` of the match on args
MainUsage ==
    /\ launch = "usage"
    /\ exit_code = None
    /\ exit_code' = Some(COMMAND_LINE_ERROR)
    /\ UNCHANGED <<source, launch, scan_vars>>
    /\ UNCHANGED <<parser_vars, interp_vars>>

\* the exit status after `match dsl.run(path) { .. }` in the arm [_, path]
ExitCodeOfMatch(result) ==
    CASE result = "Ok" -> 0
      [] result = "Parse" -> PARSE_ERROR
      [] result = "Io" -> IO_ERROR
      [] result = "Scan" -> SCAN_ERROR
      [] result = "Runtime" -> RUNTIME_ERROR
      [] result = "Panic" -> MAIN_PANICKED
      [] result = "Exited" -> 0

\* the exit status after `dsl.run(input.trim())?;` in the arm [_]
ExitCodeOfTry(result) ==
    CASE result = "Ok" -> 0
      [] result \in {"Parse", "Io", "Scan", "Runtime"} -> MAIN_RETURNED_ERR
      [] result = "Panic" -> MAIN_PANICKED
      [] result = "Exited" -> 0

\* main: the process ends once DSL::run has come to an end
MainExit ==
    /\ launch \in {"path", "prompt"}
    /\ exit_code = None
    /\ RunResult # "Running"
    /\ exit_code' = Some(IF launch = "path" THEN ExitCodeOfMatch(RunResult)
                                            ELSE ExitCodeOfTry(RunResult))
    /\ UNCHANGED <<source, launch, scan_vars>>
    /\ UNCHANGED <<parser_vars, interp_vars>>

\* DSL::run called on a path, as tests/integration_test.rs does
RunInit ==
    /\ source = "Unread"
    /\ launch = "call"
    /\ exit_code = None

\* the program started from the command line, in each of the three ways
MainLaunch ==
    /\ source = "Unread"
    /\ launch \in {"path", "prompt", "usage"}
    /\ exit_code = None

vars == <<parser_vars, interp_vars, run_vars>>

Init == ParserInit /\ InterpreterInit /\ RunInit /\ ScannerInit

Next ==
    \/ RunReadSource
    \/ RunScan
    \/ \E stage \in StageNames : ParseSTAGE(stage)
    \/ \E speak \in Speaks : ParseSPEAK(speak)
    \/ \E pattern \in Patterns : ParseMATCH(pattern)
    \/ ParseDEFAULT
    \/ \E input_var \in InputVars : ParseINPUT(input_var)
    \/ \E next_stage \in StageNames : ParseNEXT(next_stage)
    \/ ParseEnd
    \/ InterpretCall
    \/ InterpretSpeak
    \/ InterpretDispatch
    \/ \E line \in Lines : InterpretEnter(line)
    \/ InterpretEsc

Spec == Init /\ [][Next]_vars

MainNext ==
    \/ Next
    \/ MainUsage
    \/ MainExit

MainInit == ParserInit /\ InterpreterInit /\ MainLaunch /\ ScannerInit

MainSpec == MainInit /\ [][MainNext]_vars

\* a caller that holds the Interpreter and calls interpret again after a return
RepeatNext ==
    \/ Next
    \/ InterpretCallAgain

RepeatSpec == Init /\ [][RepeatNext]_vars

ScannerNext ==
    \/ ScanLine
    \/ ScanEnd

ScannerStart == ParserInit /\ InterpreterInit /\ ScanInit

ScanSpec == ScannerStart /\ [][ScannerNext]_vars

\* the characters of the speak templates given to format_output on its own
TemplateAlphabet == {"\"", "+", " ", "n", "h"}

FormatTemplates == UNION {[1..k -> TemplateAlphabet] : k \in 0..MaxTemplate}

\* the variables: none, n bound by the input m, n bound by the input 07
FormatValues ==
    {<< >>, define(<< >>, <<"n">>, <<"m">>), define(<< >>, <<"n">>, <<"0", "7">>)}

\* Interpreter::new on a Stage Map whose stage initial has the template, at the
\* top of the loop of interpret, with and without the variable n bound
FormatStart ==
    /\ commands = <<>>
    /\ status = "Init"
    /\ current_stage = None
    /\ current_speak = None
    /\ current_transition = None
    /\ current_pattern = None
    /\ \E speak \in FormatTemplates :
          stages = MapInsert(<< >>, "initial",
                             StageBlockNew("initial", speak,
                                           TransitionInput(InputBlock(<<"n">>, "EXIT"))))
    /\ parse_result = "Ok"
    /\ diag = None
    /\ env_stage = "initial"
    /\ env_values \in FormatValues
    /\ pc = "Loop"
    /\ raw_mode = FALSE
    /\ events = <<>>
    /\ source = "Scanned"
    /\ launch = "call"
    /\ exit_code = None
    /\ ScannerInit

FormatNext == InterpretSpeak

FormatSpec == FormatStart /\ [][FormatNext]_vars

----------------------------------------------------------------------------
(* Reading the command stream back from `commands` *)

Last(seq) == seq[Len(seq)]

\* the step consumed one more command, of this kind
Fed(ctype) ==
    /\ Len(commands') = Len(commands) + 1
    /\ Last(commands').ctype = ctype

FedArg == Last(commands').arg

\* kind of the command before the one being fed ("none" at the start of the stream)
PrevKind == IF commands = <<>> THEN "none" ELSE Last(commands).ctype

\* the step returned ParseError and left the Stage Map alone
Rejected == parse_result' = "Parse" /\ stages' = stages

\* the commands parse took without error
Accepted ==
    IF parse_result = "Parse" THEN SubSeq(commands, 1, Len(commands) - 1) ELSE commands

\* index of the STAGE command that opened the stage command i belongs to (0: none)
StageStart(cmds, i) ==
    LET before == {k \in 1..i : cmds[k].ctype = "STAGE"} IN
    IF before = {} THEN 0 ELSE CHOOSE k \in before : \A m \in before : m <= k

\* commands i and j lie in the same stage
SameStage(cmds, i, j) == StageStart(cmds, i) = StageStart(cmds, j)

\* the stream ended (the for loop ran out of commands, no command was refused)
StreamEnded == parse_result \in {"Ok", "Panic"} /\ diag = None

\* the last stage of the stream has a SPEAK and no NEXT
LastStageOpenWithoutNext ==
    /\ commands # <<>>
    /\ LET start == StageStart(commands, Len(commands)) IN
       /\ start > 0
       /\ \E j \in start..Len(commands) : commands[j].ctype = "SPEAK"
       /\ \A j \in start..Len(commands) : commands[j].ctype # "NEXT"

----------------------------------------------------------------------------
(* C1 (as claimed): a stream that ends with a stage that has a SPEAK but no *)
(* completed MATCH/DEFAULT/INPUT + NEXT group makes parse return           *)
(* ParseError; it neither inserts a StageBlock, nor drops the stage, nor   *)
(* aborts in any other way.  The code unwraps a None transition instead.   *)
C1_IncompleteStageIsParseError ==
    (StreamEnded /\ LastStageOpenWithoutNext) => parse_result = "Parse"

----------------------------------------------------------------------------
(* C2 (as claimed): MATCH and DEFAULT are accepted right after SPEAK, in   *)
(* InMatchGroup (a MATCH or DEFAULT still awaiting its NEXT) and in        *)
(* AfterMatchNext, and refused with ParseError everywhere else.            *)
C2_MatchAcceptedInMatchGroup ==
    [][ (Fed("MATCH") \/ Fed("DEFAULT")) =>
          IF status \in {"Speak", "Match", "Default", "MatchNext"}
            THEN /\ parse_result' = "Running"
                 /\ status' \in {"Match", "Default"}
                 /\ current_pattern' = Some(IF Fed("MATCH") THEN FedArg ELSE WILDCARD)
            ELSE Rejected ]_vars

(* C2 (amended): MATCH(pattern) is accepted (pattern stashed, match-group  *)
(* state entered) exactly right after SPEAK and in AfterMatchNext; DEFAULT *)
(* is accepted in exactly the same contexts and stashes ".*"; in every     *)
(* other state, InMatchGroup included, parse returns ParseError.           *)
C2_MatchDefaultContexts ==
    [][ (Fed("MATCH") \/ Fed("DEFAULT")) =>
          IF status \in {"Speak", "MatchNext"}
            THEN /\ parse_result' = "Running"
                 /\ status' = (IF Fed("MATCH") THEN "Match" ELSE "Default")
                 /\ current_pattern' = Some(IF Fed("MATCH") THEN FedArg ELSE WILDCARD)
                 /\ stages' = stages
            ELSE Rejected ]_vars

\* a MATCH that follows a MATCH still awaiting its NEXT has been refused
C2_Witness ==
    /\ Len(commands) >= 2
    /\ Last(commands).ctype = "MATCH"
    /\ commands[Len(commands) - 1].ctype = "MATCH"
    /\ parse_result = "Parse"

----------------------------------------------------------------------------
(* C3: STAGE is accepted only in Init, AfterMatchNext and AfterInputNext,  *)
(* and refused with ParseError in every other state.  When accepted and    *)
(* the previous stage has a speak line, that stage enters the Stage Map    *)
(* with exactly the transition accumulated for it; the speak and           *)
(* transition accumulators are reset and the new stage becomes current.    *)
C3_StageContextsAndFlush ==
    [][ Fed("STAGE") =>
          IF status \in {"Init", "MatchNext", "InputNext"}
            THEN /\ parse_result' = "Running"
                 /\ status' = "Stage"
                 /\ current_stage' = Some(FedArg)
                 /\ current_speak' = None
                 /\ current_transition' = None
                 /\ IF IsSome(current_speak)
                      THEN /\ IsSome(current_stage) /\ IsSome(current_transition)
                           /\ DOMAIN stages' = DOMAIN stages \cup {Unwrap(current_stage)}
                           /\ stages'[Unwrap(current_stage)] =
                                 [stage |-> Unwrap(current_stage),
                                  speak |-> Unwrap(current_speak),
                                  transition |-> Unwrap(current_transition)]
                           /\ \A k \in DOMAIN stages \ {Unwrap(current_stage)} :
                                 stages'[k] = stages[k]
                      ELSE stages' = stages
            ELSE Rejected ]_vars

\* a second STAGE was accepted and flushed the stage before it
C3_Witness ==
    /\ parse_result = "Running"
    /\ status = "Stage"
    /\ stages # << >>
    /\ current_speak = None /\ current_transition = None

----------------------------------------------------------------------------
(* C4: SPEAK is accepted only when the command just before it is STAGE;    *)
(* anywhere else (after a completed INPUT/NEXT or MATCH/NEXT group, or a   *)
(* second SPEAK in the stage) parse returns ParseError, so the commands    *)
(* parse accepts give every stage at most one SPEAK.                       *)
C4_SpeakOnlyAfterStage ==
    [][ /\ Fed("SPEAK") =>
             IF PrevKind = "STAGE"
               THEN /\ parse_result' = "Running"
                    /\ status' = "Speak"
                    /\ current_speak' = Some(FedArg)
                    /\ stages' = stages
               ELSE Rejected
        /\ \A i, j \in 1..Len(Accepted') :
             (i < j /\ Accepted'[i].ctype = "SPEAK" /\ Accepted'[j].ctype = "SPEAK")
                => ~SameStage(Accepted', i, j) ]_vars

\* a SPEAK after a completed group of the same stage has been refused
C4_Witness ==
    /\ Len(commands) >= 2
    /\ Last(commands).ctype = "SPEAK"
    /\ commands[Len(commands) - 1].ctype = "NEXT"
    /\ parse_result = "Parse"

----------------------------------------------------------------------------
(* C5: INPUT(varName) is accepted only right after SPEAK and refused with  *)
(* ParseError in every other state; so in the commands parse accepts, a    *)
(* stage with an INPUT holds no MATCH, no DEFAULT and no second INPUT.      *)
C5_InputOnlyAfterSpeak ==
    [][ /\ Fed("INPUT") =>
             IF PrevKind = "SPEAK"
               THEN /\ parse_result' = "Running"
                    /\ status' = "Input"
                    /\ current_pattern' = Some(FedArg)
                    /\ stages' = stages
               ELSE Rejected
        /\ \A i, j \in 1..Len(Accepted') :
             (i # j /\ Accepted'[j].ctype = "INPUT" /\ SameStage(Accepted', i, j))
                => Accepted'[i].ctype \notin {"MATCH", "DEFAULT", "INPUT"} ]_vars

\* an INPUT after a completed MATCH/NEXT group of the same stage has been refused
C5_Witness ==
    /\ Len(commands) >= 3
    /\ Last(commands).ctype = "INPUT"
    /\ commands[Len(commands) - 1].ctype = "NEXT"
    /\ commands[Len(commands) - 2].ctype = "MATCH"
    /\ parse_result = "Parse"

----------------------------------------------------------------------------
(* C6: NEXT(stageName) is accepted only when the command just before it is *)
(* MATCH, DEFAULT or INPUT.  After INPUT the stage's transition becomes    *)
(* Input{varName: the INPUT's argument, nextStage: stageName} and the      *)
(* parser is in AfterInputNext; after MATCH/DEFAULT it is in               *)
(* AfterMatchNext; anywhere else parse returns ParseError.                 *)
C6_NextOnlyClosesGroup ==
    [][ Fed("NEXT") =>
          IF PrevKind = "INPUT"
            THEN /\ parse_result' = "Running"
                 /\ status' = "InputNext"
                 /\ current_transition' =
                       Some([kind |-> "Input",
                             block |-> [input_var |-> Last(commands).arg,
                                        next_stage |-> FedArg]])
                 /\ stages' = stages
          ELSE IF PrevKind \in {"MATCH", "DEFAULT"}
            THEN /\ parse_result' = "Running"
                 /\ status' = "MatchNext"
                 /\ stages' = stages
          ELSE Rejected ]_vars

\* a NEXT has closed an INPUT group
C6_Witness ==
    /\ parse_result = "Running"
    /\ status = "InputNext"
    /\ Last(commands).ctype = "NEXT"
    /\ IsSome(current_transition) /\ Unwrap(current_transition).kind = "Input"

----------------------------------------------------------------------------
(* C7: for every accepted stream, the Match arm list of each stage is      *)
(* exactly the (pattern, nextStage) pairs of that stage's MATCH/DEFAULT    *)
(* ... NEXT groups in declaration order: nothing lost, duplicated,         *)
(* reordered, or taken from another stage.  The same holds of the arms     *)
(* accumulated for the stage being parsed.                                 *)

\* the arms declared by cmds[k..end], in declaration order
RECURSIVE DeclaredArms(_, _, _)
DeclaredArms(cmds, k, end) ==
    IF k > end THEN <<>>
    ELSE (IF k > 1 /\ cmds[k].ctype = "NEXT" /\ cmds[k - 1].ctype \in {"MATCH", "DEFAULT"}
            THEN << [pattern |-> IF cmds[k - 1].ctype = "DEFAULT"
                                    THEN <<".", "*">> ELSE cmds[k - 1].arg,
                     next_stage |-> cmds[k].arg] >>
            ELSE <<>>)
         \o DeclaredArms(cmds, k + 1, end)

\* last command of the stage opened at `start`
StageEnd(cmds, start) ==
    LET later == {k \in (start + 1)..Len(cmds) : cmds[k].ctype = "STAGE"} IN
    IF later = {} THEN Len(cmds)
    ELSE (CHOOSE k \in later : \A m \in later : k <= m) - 1

\* the STAGE commands that open a stage called `name` and are followed by its SPEAK
Definitions(cmds, name) ==
    {i \in 1..(Len(cmds) - 1) :
        cmds[i].ctype = "STAGE" /\ cmds[i].arg = name /\ cmds[i + 1].ctype = "SPEAK"}

C7_ArmsInDeclarationOrder ==
    /\ (parse_result = "Running" /\ IsSome(current_transition)
          /\ Unwrap(current_transition).kind = "Match")
         => Unwrap(current_transition).blocks =
               DeclaredArms(commands, StageStart(commands, Len(commands)), Len(commands))
    /\ parse_result = "Ok" =>
         \A name \in DOMAIN stages :
            LET defs == Definitions(commands, name) IN
            /\ defs # {}
            /\ LET start == CHOOSE i \in defs : \A m \in defs : m <= i
                   arms == DeclaredArms(commands, start, StageEnd(commands, start)) IN
               IF stages[name].transition.kind = "Match"
                 THEN stages[name].transition.blocks = arms
                 ELSE arms = <<>>

\* an accepted stream whose Stage Map holds a stage with two different arms
C7_Witness ==
    /\ parse_result = "Ok"
    /\ \E name \in DOMAIN stages :
          /\ stages[name].transition.kind = "Match"
          /\ Len(stages[name].transition.blocks) = 2
          /\ stages[name].transition.blocks[1].pattern
                # stages[name].transition.blocks[2].pattern
          /\ stages[name].transition.blocks[1].next_stage
                # stages[name].transition.blocks[2].next_stage

----------------------------------------------------------------------------
(* Reading a stage visit back from `events` *)

\* the stage of the visit in progress, or of the last visit made
Visited == events[1].val

EventsOf(evs, kind) == {i \in 1..Len(evs) : evs[i].ev = kind}

Spoken(evs) == Len(evs) >= 2 /\ evs[2].ev = "output"

EmptyKeyword == <<"E", "M", "P", "T", "Y">>

HasEmptyArm(t) ==
    t.kind = "Match" /\ \E i \in 1..Len(t.blocks) : t.blocks[i].pattern = EmptyKeyword

\* the pattern, quotes stripped and anchored, matches the text as a
\* case-insensitive regular expression
PatternMatches(pattern, text) ==
    /\ RegexBuilds(RegexSource(pattern))
    /\ is_match(RegexSource(pattern), text)

\* the visit of a Match stage without EMPTY arm has run its transition
MatchVisitDone ==
    /\ events # <<>>
    /\ Spoken(events)
    /\ pc \in {"Loop", "Ok", "Runtime", "Panic"}
    /\ stages[Visited].transition.kind = "Match"
    /\ ~HasEmptyArm(stages[Visited].transition)

\* one line read; the first arm that matches it is adopted, RuntimeError if none
FirstMatchAdopted ==
    LET arms == stages[Visited].transition.blocks
        reads == EventsOf(events, "read") IN
    /\ Cardinality(reads) = 1
    /\ LET text == Trim(events[CHOOSE i \in reads : TRUE].val)
           hits == {i \in 1..Len(arms) : PatternMatches(arms[i].pattern, text)} IN
       IF hits # {}
         THEN /\ pc \in {"Loop", "Ok"}
              /\ env_stage = arms[CHOOSE i \in hits : \A m \in hits : i <= m].next_stage
         ELSE /\ pc = "Runtime"
              /\ env_stage = Visited

----------------------------------------------------------------------------
(* C8 (as claimed): in a Match stage without an EMPTY arm exactly one line *)
(* is read and the arms are tried in declared order: the nextStage of the  *)
(* first arm whose pattern matches the trimmed input is adopted, even if   *)
(* later arms match too; if no arm matches, interpret fails with           *)
(* RuntimeError, without a second read, and currentStage stays at the      *)
(* failing stage.  An arm whose pattern is no regular expression makes the *)
(* code panic in RegexBuilder::build(..).unwrap() instead.                 *)
C8_FirstMatchingArmWins == MatchVisitDone => FirstMatchAdopted

\* what does hold: the claim, for stages whose patterns up to the adopted arm
\* (all of them, when none matches) are regular expressions
FirstMatchWinsWhenPatternsBuild ==
    (MatchVisitDone /\ pc # "Panic") => FirstMatchAdopted

----------------------------------------------------------------------------
(* C9: a stage whose Match list has more than one arm and holds the        *)
(* pattern EMPTY at any position is accepted by parse, and executing it    *)
(* fails with RuntimeError: the EMPTY check fails right after the stage's  *)
(* speak line was emitted, and the visit reads no input and adopts no      *)
(* stage.                                                                  *)
EmptyAmongSeveral(t) == HasEmptyArm(t) /\ Len(t.blocks) > 1

C9_EmptyAmongOthersFailsAtRunTime ==
    [][ /\ (pc = "Dispatch" /\ EmptyAmongSeveral(stages[env_stage].transition)) =>
             /\ parse_result = "Ok"
             /\ Spoken(events) /\ Len(events) = 2
             /\ pc' = "Runtime"
             /\ events' = events
             /\ env_stage' = env_stage
             /\ raw_mode' = FALSE
        /\ (events' # <<>> /\ EmptyAmongSeveral(stages'[Visited'].transition)) =>
             /\ pc' \in {"Dispatch", "Runtime"}
             /\ EventsOf(events', "read") = {}
             /\ EventsOf(events', "transition") = {}
             /\ env_stage' = Visited' ]_vars

\* a three-arm stage with EMPTY in the middle has failed after its speak line
C9_Witness ==
    /\ pc = "Runtime"
    /\ events # <<>> /\ Spoken(events)
    /\ LET t == stages[Visited].transition IN
       /\ t.kind = "Match" /\ Len(t.blocks) = 3
       /\ t.blocks[1].pattern # EmptyKeyword
       /\ t.blocks[2].pattern = EmptyKeyword
       /\ t.blocks[3].pattern # EmptyKeyword

----------------------------------------------------------------------------
(* C10: when a stage's Match transition is the single arm EMPTY, the       *)
(* interpreter reads no input for that visit and sets currentStage to the  *)
(* arm's nextStage unconditionally.                                        *)
OnlyEmpty(t) ==
    t.kind = "Match" /\ Len(t.blocks) = 1 /\ t.blocks[1].pattern = EmptyKeyword

C10_SingleEmptyArmSkipsInput ==
    [][ /\ (pc = "Dispatch" /\ OnlyEmpty(stages[env_stage].transition)) =>
             LET next == stages[env_stage].transition.blocks[1].next_stage IN
             /\ env_stage' = next
             /\ pc' = (IF next = "EXIT" THEN "Ok" ELSE "Loop")
             /\ raw_mode' = FALSE
             /\ events' = Append(events, [ev |-> "transition", val |-> next])
        /\ (events' # <<>> /\ OnlyEmpty(stages'[Visited'].transition)) =>
             /\ pc' \notin {"Reading", "Exited", "Panic"}
             /\ EventsOf(events', "read") = {}
             /\ pc' = "Runtime" => ~Spoken(events') ]_vars

\* a single-EMPTY stage has been left for EXIT without any read
C10_Witness ==
    /\ pc = "Ok"
    /\ events # <<>>
    /\ OnlyEmpty(stages[Visited].transition)
    /\ EventsOf(events, "read") = {}
    /\ Last(events).ev = "transition"

----------------------------------------------------------------------------
(* C11: if the speak template of the stage being visited references a      *)
(* variable that is not defined in the Runtime Environment, interpret      *)
(* fails with RuntimeError for that stage and emits nothing for it: no     *)
(* prefix of the resolved parts is printed, no input is read, and the      *)
(* variables and currentStage are unchanged.                               *)

\* the parts of a template between the `+` signs, trimmed
TemplateParts(speak) == {Trim(Split(speak, "+")[k]) : k \in 1..Len(Split(speak, "+"))}

\* the parts that are not quote-wrapped literals are variable names
ReferencedVariables(speak) ==
    {part \in TemplateParts(speak) :
        ~(Len(part) > 0 /\ part[1] = "\"" /\ part[Len(part)] = "\"")}

ReferencesUndefined(speak, values) ==
    \E name \in ReferencedVariables(speak) : name \notin DOMAIN values

C11_UndefinedVariableEmitsNothing ==
    [][ (/\ pc = "Loop"
         /\ env_stage \in DOMAIN stages
         /\ ReferencesUndefined(stages[env_stage].speak, env_values)) =>
          /\ pc' = "Runtime"
          /\ events' = <<[ev |-> "lookup", val |-> env_stage]>>
          /\ raw_mode' = FALSE
          /\ env_values' = env_values
          /\ env_stage' = env_stage ]_vars

\* the second stage visited speaks "h" + n with n undefined: the run has failed
\* there, and "h" was not printed
C11_Witness ==
    /\ pc = "Runtime"
    /\ Len(events) = 1
    /\ Visited = "A"
    /\ stages["A"].speak = <<"\"", "h", "\"", "+", "n">>
    /\ "n" \notin {name[1] : name \in DOMAIN env_values}

----------------------------------------------------------------------------
(* C12: interpretation starts at stage "initial"; whenever currentStage    *)
(* (the initial one, or a nextStage other than EXIT adopted by a           *)
(* transition) is not a key of the Stage Map, interpret fails with         *)
(* RuntimeError at the lookup, before any output is emitted or any input   *)
(* read for that stage.                                                    *)
C12_MissingStageFailsAtLookup ==
    [][ /\ (pc = "Idle" /\ pc' # "Idle") =>
             (pc' = "Loop" /\ env_stage' = "initial" /\ events' = <<>>)
        /\ (pc = "Loop" /\ env_stage \notin DOMAIN stages) =>
             /\ pc' = "Runtime"
             /\ events' = <<>>
             /\ raw_mode' = FALSE
             /\ env_values' = env_values
             /\ env_stage' = env_stage
        /\ (pc' = "Loop" /\ pc # "Idle") =>
             (env_stage' # "EXIT" /\ Last(events').ev = "transition"
                /\ Last(events').val = env_stage') ]_vars

\* a transition adopted stage A, which the script does not define: the run
\* has failed at the lookup
C12_Witness ==
    /\ pc = "Runtime"
    /\ events = <<>>
    /\ env_stage = "A"
    /\ DOMAIN stages = {"initial"}

----------------------------------------------------------------------------
(* C13: in every run each input read is immediately preceded by the        *)
(* emission (and flush) of the speak line of the stage being visited: the  *)
(* events of a stage visit are lookup, output, then at most one read, then *)
(* the transition; exactly one output line per successfully resolved       *)
(* visit, and none between a read and the next stage's lookup.             *)

\* the kinds of the events of the visit, in order
Kinds(evs) == [i \in 1..Len(evs) |-> evs[i].ev]

VisitOrders ==
    { <<>>, <<"lookup">>, <<"lookup", "output">>,
      <<"lookup", "output", "read">>,
      <<"lookup", "output", "transition">>,
      <<"lookup", "output", "read", "transition">> }

C13_SpeakBeforeRead ==
    /\ Kinds(events) \in VisitOrders
    /\ pc \in {"Dispatch", "Reading"} =>
          /\ Kinds(events) = <<"lookup", "output">>
          /\ events[1].val = env_stage
          /\ env_stage \in DOMAIN stages
          /\ format_output(stages[env_stage].speak, env_values).ok
          /\ events[2].val = format_output(stages[env_stage].speak, env_values).val
    /\ raw_mode <=> pc = "Reading"
    /\ pc \in {"Loop", "Ok"} =>
          \/ events = <<>> /\ pc = "Loop" /\ env_stage = "initial"
          \/ /\ Last(Kinds(events)) = "transition"
             /\ Last(events).val = env_stage
             /\ (pc = "Ok") <=> (env_stage = "EXIT")
    /\ (pc \in {"Runtime", "Panic"} /\ events # <<>>) =>
          (Last(Kinds(events)) # "transition" /\ events[1].val = env_stage)

\* an earlier visit has read a line into n; the visit of A has spoken and now
\* waits for its own line
C13_Witness ==
    /\ pc = "Reading"
    /\ Visited = "A"
    /\ DOMAIN env_values # {}
    /\ Kinds(events) = <<"lookup", "output">>

----------------------------------------------------------------------------
(* Reading an Input transition back from a step of the interpreter *)

\* the step is the return of read_line (Enter) inside an Input transition
InputExecuted ==
    /\ pc = "Reading" /\ pc' # "Reading" /\ pc' # "Exited"
    /\ stages[env_stage].transition.kind = "Input"

\* the line that step read
LineRead == events'[Len(events) + 1].val

\* leading and trailing blanks removed
Trimmed(text) ==
    LET solid == {i \in 1..Len(text) : text[i] # " "} IN
    IF solid = {} THEN <<>>
    ELSE SubSeq(text, CHOOSE i \in solid : \A m \in solid : i <= m,
                      CHOOSE i \in solid : \A m \in solid : m <= i)

IsNumeric(text) == text # <<>> /\ \A i \in 1..Len(text) : IsDigit(text[i])

\* the Value a text is stored as: Number for numeric text, String otherwise
ValueOfText(text) ==
    IF IsNumeric(text)
      THEN [type |-> "Number", number |-> DecimalValue(text), text |-> <<>>]
      ELSE [type |-> "String", number |-> 0, text |-> text]

\* how a Value prints
Shown(value) ==
    IF value.type = "Number" THEN DecimalDigits(value.number) ELSE value.text

\* the template parts from the i-th on, resolved and concatenated
RECURSIVE Resolved(_, _, _)
Resolved(parts, i, values) ==
    IF i > Len(parts) THEN <<>>
    ELSE LET part == Trimmed(parts[i]) IN
         (IF Len(part) > 0 /\ part[1] = "\"" /\ part[Len(part)] = "\""
            THEN SubSeq(part, 2, Len(part) - 1)
            ELSE Shown(values[part]))
         \o Resolved(parts, i + 1, values)

\* one line is read, the cursor moves to nextStage, only varName is rebound
InputFrame ==
    LET block == stages[env_stage].transition.block IN
    /\ events' = events \o <<[ev |-> "read", val |-> LineRead],
                             [ev |-> "transition", val |-> block.next_stage]>>
    /\ env_stage' = block.next_stage
    /\ pc' = (IF block.next_stage = "EXIT" THEN "Ok" ELSE "Loop")
    /\ DOMAIN env_values' = DOMAIN env_values \cup {block.input_var}
    /\ \A name \in DOMAIN env_values \ {block.input_var} :
          env_values'[name] = env_values[name]

\* the variables change in no other step
OnlyInputBinds == (env_values' # env_values) => InputExecuted

\* a speak line that is emitted is the template resolved against the variables
SpeakResolvesCurrentValues ==
    (pc = "Loop" /\ pc' = "Dispatch") =>
        events'[2].val = Resolved(Split(stages[env_stage].speak, "+"), 1, env_values)

----------------------------------------------------------------------------
(* C14 (as claimed): executing an Input transition reads exactly one line, *)
(* binds varName to the trimmed text and sets currentStage to nextStage    *)
(* whatever the text is; the binding replaces any earlier value, so every  *)
(* later speak template that references varName resolves to the most       *)
(* recent input for it.  A numeric input such as 07 is stored as the       *)
(* Number 7 and a later template prints 7, not the text that was typed.    *)
C14_InputBindsTrimmedText ==
    [][ /\ InputExecuted =>
             /\ InputFrame
             /\ Shown(env_values'[stages[env_stage].transition.block.input_var])
                   = Trimmed(LineRead)
        /\ OnlyInputBinds
        /\ SpeakResolvesCurrentValues ]_vars

(* C14 (amended): executing an Input transition reads exactly one line,    *)
(* binds varName to the Value of the trimmed text (Number when the text is *)
(* numeric, String otherwise) and sets currentStage to nextStage whatever  *)
(* the text is; the binding replaces any earlier value (type and value)    *)
(* and no other step changes a variable, so every later speak template     *)
(* that references varName resolves to the printed form of the Value of    *)
(* the most recent input for it, in whatever stage it is visited.          *)
C14_InputBindsValueOfText ==
    [][ /\ InputExecuted =>
             /\ InputFrame
             /\ env_values'[stages[env_stage].transition.block.input_var]
                   = ValueOfText(Trimmed(LineRead))
        /\ OnlyInputBinds
        /\ SpeakResolvesCurrentValues ]_vars

\* stage A showed n as the text m, then read 07 into n: n is now the Number 7
C14_Witness ==
    /\ pc = "Loop"
    /\ Kinds(events) = <<"lookup", "output", "read", "transition">>
    /\ Visited = "A"
    /\ events[2].val = <<"h", "m">>
    /\ events[3].val = <<"0", "7">>
    /\ env_values[<<"n">>] = [type |-> "Number", number |-> 7, text |-> <<>>]

----------------------------------------------------------------------------
(* C15 (as claimed): interpret stops only in two ways: it returns success  *)
(* exactly when a transition sets currentStage to "EXIT", or it returns a  *)
(* RuntimeError; the number of stage visits is not bounded, and on a       *)
(* cyclic stage graph the run ends with success as soon as an input routes *)
(* to EXIT.  (The exit key ends the whole process inside read_line.)  An   *)
(* arm whose pattern is no regular expression makes interpret panic: a     *)
(* third way of stopping.                                                  *)

\* interpret has stopped, or the process has
Stopped == pc \in {"Ok", "Runtime", "Panic", "Exited"}

\* what does hold in every state: success is returned exactly when a transition
\* has adopted EXIT
ReturnsOkExactlyAtExit ==
    /\ (pc = "Ok") <=> (env_stage = "EXIT")
    /\ pc = "Ok" => (Last(events).ev = "transition" /\ Last(events).val = "EXIT")

C15_StopsOnlyByExitOrRuntimeError ==
    /\ Stopped => pc \in {"Ok", "Runtime", "Exited"}
    /\ ReturnsOkExactlyAtExit

----------------------------------------------------------------------------
(* Reading the stage references of a Stage Map *)

\* the nextStage values of a transition
NextStages(t) ==
    IF t.kind = "Input" THEN {t.block.next_stage}
    ELSE {t.blocks[i].next_stage : i \in 1..Len(t.blocks)}

\* the stage names a Stage Map refers to
Referenced(map) == UNION {NextStages(map[name].transition) : name \in DOMAIN map}

\* references to a stage that is neither defined nor EXIT
Dangling(map) == Referenced(map) \ (DOMAIN map \cup {"EXIT"})

\* the arguments of the NEXT commands of the definition that `name` ends up with
NextArguments(cmds, name) ==
    LET defs == Definitions(cmds, name)
        start == CHOOSE i \in defs : \A m \in defs : m <= i IN
    {cmds[k].arg : k \in {j \in start..StageEnd(cmds, start) : cmds[j].ctype = "NEXT"}}

----------------------------------------------------------------------------
(* C16 (as claimed): for every command stream that parse accepts, every    *)
(* nextStage in any transition of the resulting Stage Map (each Match arm  *)
(* and each Input block) is a key of that Stage Map or "EXIT".             *)
C16_NextStagesAreKeysOrExit ==
    parse_result = "Ok" => Dangling(stages) = {}

(* C16 (amended): parse does not check stage references.  For every        *)
(* command stream that parse accepts, the nextStage values of each stage   *)
(* of the Stage Map are exactly the arguments of the NEXT commands of that *)
(* stage's definition, whether or not they name a key of the map; a        *)
(* nextStage that is neither a key nor "EXIT" is accepted by parse and     *)
(* surfaces only at run time, as the RuntimeError of the lookup when a     *)
(* transition adopts it.                                                   *)
C16_NextStagesAreAsDeclared ==
    /\ parse_result = "Ok" =>
          \A name \in DOMAIN stages :
             NextStages(stages[name].transition) = NextArguments(commands, name)
    /\ (pc # "Idle" /\ env_stage \notin DOMAIN stages \cup {"EXIT"}) =>
          /\ pc \in {"Loop", "Runtime"}
          /\ pc = "Runtime" => events = <<>>
          /\ env_stage = "initial" \/ env_stage \in Dangling(stages)

\* parse accepted an Input block that leads to the undefined stage A; the run
\* failed when the block's transition adopted A
C16_Witness ==
    /\ parse_result = "Ok"
    /\ "initial" \in DOMAIN stages
    /\ stages["initial"].transition.kind = "Input"
    /\ "A" \in Dangling(stages)
    /\ env_stage = "A"
    /\ pc = "Runtime"

----------------------------------------------------------------------------
(* C17 (as claimed): the reserved name "EXIT" is never a key of a Stage    *)
(* Map built by parse, and a stage named EXIT is never executed: reaching  *)
(* EXIT by a transition always halts the interpreter without looking up,   *)
(* speaking or reading for a stage called EXIT.  parse accepts STAGE EXIT  *)
(* like any other name and inserts the stage under the key "EXIT".         *)

\* what does hold: no visit is ever made to a stage called EXIT, defined or not
ExitStageIsNeverExecuted ==
    /\ events # <<>> => Visited # "EXIT"
    /\ env_stage = "EXIT" => pc = "Ok"

C17_ExitIsNeverAStage ==
    /\ "EXIT" \notin DOMAIN stages
    /\ ExitStageIsNeverExecuted

----------------------------------------------------------------------------
(* DSLParser::parse as a function of a whole command stream: the same arms *)
(* as the actions above, on a record of the parser's state, so that parse  *)
(* can be applied to a stream that is computed from a Stage Map.           *)

\* DSLParser::new and the locals at the top of parse
ParserNew ==
    [status |-> "Init", current_stage |-> None, current_speak |-> None,
     current_transition |-> None, current_pattern |-> None,
     stages |-> << >>, result |-> "Running"]

\* if let (Some(stage), Some(speak)) = .. { stages.insert(.., current_transition.unwrap()) }
Flush(st) ==
    IF IsSome(st.current_stage) /\ IsSome(st.current_speak)
      THEN IF IsSome(st.current_transition)
             THEN [st EXCEPT !.stages =
                      MapInsert(st.stages, Unwrap(st.current_stage),
                                StageBlockNew(Unwrap(st.current_stage),
                                              Unwrap(st.current_speak),
                                              Unwrap(st.current_transition)))]
             ELSE [st EXCEPT !.result = "Panic"]
      ELSE st

\* one iteration of the for loop: the match on command.ctype
ParseStep(st, cmd) ==
    LET refused == [st EXCEPT !.result = "Parse"] IN
    CASE cmd.ctype = "STAGE" ->
           IF StageAccepts(st.status)
             THEN LET flushed == Flush(st) IN
                  IF flushed.result = "Panic" THEN flushed
                  ELSE [flushed EXCEPT !.status = "Stage",
                                       !.current_stage = Some(cmd.arg),
                                       !.current_speak = None,
                                       !.current_transition = None]
             ELSE refused
      [] cmd.ctype = "SPEAK" ->
           IF SpeakAccepts(st.status)
             THEN [st EXCEPT !.status = "Speak", !.current_speak = Some(cmd.arg)]
             ELSE refused
      [] cmd.ctype = "MATCH" ->
           IF MatchAccepts(st.status)
             THEN [st EXCEPT !.status = "Match", !.current_pattern = Some(cmd.arg)]
             ELSE refused
      [] cmd.ctype = "DEFAULT" ->
           IF DefaultAccepts(st.status)
             THEN [st EXCEPT !.status = "Default", !.current_pattern = Some(WILDCARD)]
             ELSE refused
      [] cmd.ctype = "INPUT" ->
           IF InputAccepts(st.status)
             THEN [st EXCEPT !.status = "Input", !.current_pattern = Some(cmd.arg)]
             ELSE refused
      [] cmd.ctype = "NEXT" ->
           IF st.status \in {"Match", "Default"}
             THEN [st EXCEPT !.status = "MatchNext",
                     !.current_transition =
                        IF IsSome(st.current_pattern)
                          THEN IF IsSome(st.current_transition)
                                 THEN Some(PushArm(Unwrap(st.current_transition),
                                              MatchBlock(Unwrap(st.current_pattern), cmd.arg)))
                                 ELSE Some(TransitionMatch(
                                            <<MatchBlock(Unwrap(st.current_pattern), cmd.arg)>>))
                          ELSE st.current_transition]
           ELSE IF st.status = "Input"
             THEN [st EXCEPT !.status = "InputNext",
                     !.current_transition =
                        IF IsSome(st.current_pattern)
                          THEN Some(TransitionInput(
                                      InputBlock(Unwrap(st.current_pattern), cmd.arg)))
                          ELSE st.current_transition]
           ELSE refused

\* for command in commands { .. }, left at the first error
RECURSIVE ParseFrom(_, _, _)
ParseFrom(st, cmds, i) ==
    IF i > Len(cmds) \/ st.result # "Running" THEN st
    ELSE ParseFrom(ParseStep(st, cmds[i]), cmds, i + 1)

\* DSLParser::parse on a fresh parser
parse(cmds) ==
    LET st == ParseFrom(ParserNew, cmds, 1) IN
    IF st.result # "Running" THEN st
    ELSE LET flushed == Flush(st) IN
         IF flushed.result = "Panic" THEN flushed ELSE [flushed EXCEPT !.result = "Ok"]

\* the function and the actions are the same parser
ParseAgreesWithActions ==
    (parse_result # "Running" /\ pc = "Idle") =>
        /\ parse(commands).result = parse_result
        /\ parse(commands).stages = stages

----------------------------------------------------------------------------
(* C18: round trip.  For every Stage Map M produced by a successful parse, *)
(* emitting for each stage the commands STAGE name, SPEAK speak, then      *)
(* MATCH pattern / NEXT next for each arm in order (or INPUT var / NEXT    *)
(* next), in any stage order, and parsing that stream with a fresh parser  *)
(* yields a Stage Map equal to M.                                          *)

\* the commands of the arms from the i-th on
RECURSIVE DeparseArms(_, _)
DeparseArms(blocks, i) ==
    IF i > Len(blocks) THEN <<>>
    ELSE <<[ctype |-> "MATCH", arg |-> blocks[i].pattern],
           [ctype |-> "NEXT", arg |-> blocks[i].next_stage]>> \o DeparseArms(blocks, i + 1)

\* the commands of one stage
DeparseStage(name, block) ==
    <<[ctype |-> "STAGE", arg |-> name], [ctype |-> "SPEAK", arg |-> block.speak]>>
    \o (IF block.transition.kind = "Input"
          THEN <<[ctype |-> "INPUT", arg |-> block.transition.block.input_var],
                 [ctype |-> "NEXT", arg |-> block.transition.block.next_stage]>>
          ELSE DeparseArms(block.transition.blocks, 1))

\* the commands of the stages order[i..], in that order
RECURSIVE Deparse(_, _, _)
Deparse(map, order, i) ==
    IF i > Len(order) THEN <<>>
    ELSE DeparseStage(order[i], map[order[i]]) \o Deparse(map, order, i + 1)

\* every way of putting the keys of a map in a sequence
Orders(keys) ==
    {order \in [1..Cardinality(keys) -> keys] :
        \A i, j \in 1..Cardinality(keys) : order[i] = order[j] => i = j}

C18_DeparseParseRoundTrip ==
    (parse_result = "Ok" /\ pc = "Idle") =>
        \A order \in Orders(DOMAIN stages) :
           LET again == parse(Deparse(stages, order, 1)) IN
           /\ again.result = "Ok"
           /\ again.stages = stages

\* parse has produced a map of two stages, one with an Input block and one whose
\* arm was declared by DEFAULT (de-parsed as MATCH .*)
C18_Witness ==
    /\ parse_result = "Ok" /\ pc = "Idle"
    /\ Cardinality(DOMAIN stages) = 2
    /\ \E name \in DOMAIN stages : stages[name].transition.kind = "Input"
    /\ \E name \in DOMAIN stages :
          /\ stages[name].transition.kind = "Match"
          /\ stages[name].transition.blocks[1].pattern = <<".", "*">>

----------------------------------------------------------------------------
(* C19 (as claimed): DSL::run executes the phases strictly in the order    *)
(* scan, parse, interpret, each only if the previous one succeeded: a      *)
(* ScanError or ParseError is returned before any speak line is emitted    *)
(* and before any input is read, every failure is returned as exactly one  *)
(* of the four error kinds (Io, Scan, Parse, Runtime) identifying the      *)
(* phase that failed, and no phase is retried.  The panics of parse (C1)   *)
(* and of interpret (C8) are failures that are returned as none of them.   *)

\* what does hold: the order of the phases, each run at most once and only
\* after the one before it succeeded; nothing is spoken or read on Io, Scan, Parse
PhasesInOrder ==
    /\ (commands # <<>> \/ parse_result # "Running") => source = "Scanned"
    /\ pc # "Idle" => parse_result = "Ok"
    /\ RunResult \in {"Io", "Scan", "Parse"} =>
          (pc = "Idle" /\ events = <<>> /\ ~raw_mode /\ env_values = << >>)
    /\ source \in {"Io", "Scan"} => (commands = <<>> /\ parse_result = "Running")

\* a phase that has ended is not entered again
NoPhaseRetried ==
    [][ /\ source \in {"Scanned", "Io", "Scan"} => source' = source
        /\ parse_result # "Running" => (parse_result' = parse_result /\ stages' = stages)
        /\ pc \in {"Ok", "Runtime", "Panic", "Exited"} => pc' = pc ]_vars

C19_RunPhasesAndErrorKinds ==
    /\ PhasesInOrder
    /\ RunResult \in {"Running", "Ok", "Exited", "Io", "Scan", "Parse", "Runtime"}

----------------------------------------------------------------------------
(* C20 (as claimed): for every way of launching the program (script path   *)
(* given as argument, script path typed at the prompt, or wrong argument   *)
(* count) the process exit code identifies the outcome one-to-one: usage   *)
(* error, I/O error, scan error, parse error and runtime error each yield  *)
(* their own non-zero code (64, 74, 67, 65, 70) and only success yields 0  *)
(* (the exit key, which ends the process from inside read_line, aside).    *)
(* When the path is typed at the prompt, main returns the error of         *)
(* DSL::run with `?` and every kind of error ends the process with code 1. *)

\* the exit code the claim gives to an outcome of DSL::run
ClaimedCode(result) ==
    CASE result = "Io" -> 74
      [] result = "Scan" -> 67
      [] result = "Parse" -> 65
      [] result = "Runtime" -> 70
      [] result = "Ok" -> 0

OutcomeIdentified ==
    LET code == exit_code[1] IN
    /\ launch = "usage" => code = 64
    /\ (launch # "usage" /\ RunResult \in {"Io", "Scan", "Parse", "Runtime", "Ok"}) =>
          code = ClaimedCode(RunResult)
    /\ code = 0 => (launch # "usage" /\ RunResult \in {"Ok", "Exited"})

C20_ExitCodeIdentifiesOutcome == exit_code # <<>> => OutcomeIdentified

\* what does hold: the claim, when the script path is given as argument or the
\* argument count is wrong
ExitCodesOfPathArgument ==
    (exit_code # <<>> /\ launch \in {"path", "usage"}) => OutcomeIdentified

----------------------------------------------------------------------------
(* Reading a script text *)

\* the 1-based number of the line that position i of the text lies in
LineOf(text, i) == 1 + Cardinality({k \in 1..(i - 1) : text[k] = "\n"})

\* the positions of the text that hold neither a blank nor a newline
Solid(text) == {i \in 1..Len(text) : text[i] \notin {" ", "\n"}}

\* the numbers of the non-blank lines
NonBlankLines(text) == {LineOf(text, i) : i \in Solid(text)}

\* the k-th smallest member of a set of numbers
Kth(set, k) == CHOOSE n \in set : Cardinality({m \in set : m <= n}) = k

\* the text of line n from its first to its last solid character
LineBody(text, n) ==
    LET here == {i \in Solid(text) : LineOf(text, i) = n} IN
    SubSeq(text, CHOOSE i \in here : \A m \in here : i <= m,
                 CHOOSE i \in here : \A m \in here : m <= i)

\* the first word of a line body, and what follows the blanks after it
FirstWord(body) ==
    LET blanks == {i \in 1..Len(body) : body[i] = " "} IN
    IF blanks = {} THEN body
    ELSE SubSeq(body, 1, (CHOOSE i \in blanks : \A m \in blanks : i <= m) - 1)

AfterFirstWord(body) ==
    LET after == {i \in (Len(FirstWord(body)) + 1)..Len(body) : body[i] # " "} IN
    IF after = {} THEN <<>>
    ELSE SubSeq(body, CHOOSE i \in after : \A m \in after : i <= m, Len(body))

Keyword(ctype) ==
    CASE ctype = "MATCH" -> <<"M", "A", "T", "C", "H">>
      [] ctype = "INPUT" -> <<"I", "N", "P", "U", "T">>
      [] ctype = "SPEAK" -> <<"S", "P", "E", "A", "K">>
      [] ctype = "NEXT" -> <<"N", "E", "X", "T">>
      [] ctype = "STAGE" -> <<"S", "T", "A", "G", "E">>
      [] ctype = "DEFAULT" -> <<"D", "E", "F", "A", "U", "L", "T">>

----------------------------------------------------------------------------
(* C21: scan returns one Command per non-blank source line, in source      *)
(* order, and each Command's line field is the 1-based number of its line  *)
(* in the source text, blank lines counted: a blank line produces no       *)
(* command but advances the line counter.  The same holds of the commands  *)
(* collected so far while the scan is under way; a scan that fails, fails  *)
(* at a non-blank line.                                                    *)
C21_OneCommandPerNonBlankLine ==
    LET taken == {n \in NonBlankLines(scanner_source) : n <= scan_pos}
        good == IF scan_result = "Scan" THEN taken \ {scan_pos} ELSE taken IN
    /\ scanner_current = scan_pos
    /\ Len(scan_commands) = Cardinality(good)
    /\ \A k \in 1..Len(scan_commands) :
          LET body == LineBody(scanner_source, Kth(good, k)) IN
          /\ scan_commands[k].line = Kth(good, k)
          /\ Keyword(scan_commands[k].ctype) = FirstWord(body)
          /\ scan_commands[k].arg = AfterFirstWord(body)
    /\ scan_result = "Ok" => taken = NonBlankLines(scanner_source)
    /\ scan_result = "Scan" => scan_pos \in taken

\* a text of three lines with a blank line in the middle has been scanned: the
\* commands carry the line numbers 1 and 3
C21_Witness ==
    /\ scan_result = "Ok"
    /\ Len(scan_commands) = 2
    /\ scan_commands[1].line = 1
    /\ scan_commands[2].line = 3
    /\ scan_commands[2].ctype = "NEXT"
    /\ scan_commands[2].arg = <<"A">>

----------------------------------------------------------------------------
(* C22: DEFAULT is exactly equivalent to MATCH with the pattern .* : for   *)
(* every command stream, replacing each DEFAULT by MATCH .* leaves the     *)
(* result of parse (Ok or ParseError, and the Stage Map) unchanged; and at *)
(* run time a DEFAULT arm matches every input line, so a Match stage whose *)
(* arms include DEFAULT (and no EMPTY) never fails with "no match          *)
(* pattern".                                                               *)

\* the stream with each DEFAULT replaced by MATCH .*
DefaultsAsMatches(cmds) ==
    [i \in 1..Len(cmds) |->
        IF cmds[i].ctype = "DEFAULT"
          THEN [ctype |-> "MATCH", arg |-> <<".", "*">>, line |-> cmds[i].line]
          ELSE cmds[i]]

\* the arms that DEFAULT (or MATCH .*) declared
DefaultArms(t) ==
    IF t.kind = "Match"
      THEN {i \in 1..Len(t.blocks) : t.blocks[i].pattern = <<".", "*">>}
      ELSE {}

\* the definition of the stage in force declares a DEFAULT ... NEXT group
DeclaresDefault(cmds, name) ==
    LET defs == Definitions(cmds, name)
        start == CHOOSE i \in defs : \A m \in defs : m <= i IN
    \E i \in start..(StageEnd(cmds, start) - 1) :
       cmds[i].ctype = "DEFAULT" /\ cmds[i + 1].ctype = "NEXT"

C22_DefaultIsMatchAll ==
    /\ (pc = "Idle" /\ parse_result # "Running"
          /\ DefaultsAsMatches(commands) # commands) =>
          LET replaced == parse(DefaultsAsMatches(commands)) IN
          /\ replaced.result = parse_result
          /\ replaced.stages = stages
    /\ (events # <<>> /\ EventsOf(events, "read") # {}
          /\ DeclaresDefault(commands, Visited)) =>
          LET t == stages[Visited].transition
              first == CHOOSE i \in DefaultArms(t) : \A m \in DefaultArms(t) : i <= m
              text == Trimmed(events[CHOOSE i \in EventsOf(events, "read") : TRUE].val) IN
          /\ DefaultArms(t) # {}
          /\ PatternMatches(t.blocks[first].pattern, text)
          /\ pc # "Runtime"
          /\ (\A k \in 1..(first - 1) : RegexBuilds(RegexSource(t.blocks[k].pattern)))
                => (pc \in {"Loop", "Ok"} /\ Kinds(events)[4] = "transition")

\* a stage with the arms "y" and DEFAULT has read m, which only DEFAULT matches,
\* and has adopted the stage of the DEFAULT arm
C22_Witness ==
    /\ Kinds(events) = <<"lookup", "output", "read", "transition">>
    /\ events[3].val = <<"m">>
    /\ stages[Visited].transition.kind = "Match"
    /\ LET arms == stages[Visited].transition.blocks IN
       /\ Len(arms) = 2
       /\ arms[1].pattern = <<"\"", "y", "\"">>
       /\ arms[2].pattern = <<".", "*">>
       /\ events[4].val = arms[2].next_stage
       /\ arms[1].next_stage # arms[2].next_stage
    /\ \E i \in 1..Len(commands) : commands[i].ctype = "DEFAULT"

----------------------------------------------------------------------------
(* C23: format_output on a template that is not a single quote-wrapped     *)
(* literal without + splits it on every + and returns the concatenation,   *)
(* in left-to-right order with no separator, of each part's value (a       *)
(* quote-wrapped part: its text without the quotes; otherwise the          *)
(* stringified value of the variable named by the trimmed part); it fails  *)
(* at the leftmost part that is neither quote-wrapped nor a defined        *)
(* variable.  A template fully wrapped in quotes with no + is returned     *)
(* verbatim without the quotes and never consults the variables.           *)

QuoteWrapped(text) == Len(text) > 0 /\ text[1] = "\"" /\ text[Len(text)] = "\""

\* the text without the quote characters that wrap it
Unquoted(text) ==
    LET inner == {i \in 1..Len(text) : text[i] # "\""} IN
    IF inner = {} THEN <<>>
    ELSE SubSeq(text, CHOOSE i \in inner : \A m \in inner : i <= m,
                      CHOOSE i \in inner : \A m \in inner : m <= i)

\* where the template is cut: before it, at each +, after it
Cuts(speak) == {0, Len(speak) + 1} \cup {i \in 1..Len(speak) : speak[i] = "+"}

\* the k-th part of the template, trimmed
Part(speak, k) ==
    Trimmed(SubSeq(speak, Kth(Cuts(speak), k) + 1, Kth(Cuts(speak), k + 1) - 1))

PartCount(speak) == Cardinality(Cuts(speak)) - 1

\* the values of the parts k.. of the template, concatenated
RECURSIVE PartValues(_, _, _)
PartValues(speak, k, values) ==
    IF k > PartCount(speak) THEN <<>>
    ELSE (IF QuoteWrapped(Part(speak, k))
            THEN Unquoted(Part(speak, k))
            ELSE Shown(values[Part(speak, k)]))
         \o PartValues(speak, k + 1, values)

\* the parts that have no value
Valueless(speak, values) ==
    {k \in 1..PartCount(speak) :
        ~QuoteWrapped(Part(speak, k)) /\ Part(speak, k) \notin DOMAIN values}

PlainLiteral(speak) == QuoteWrapped(speak) /\ \A i \in 1..Len(speak) : speak[i] # "+"

C23_FormatOutputConcatenatesParts ==
    env_stage \in DOMAIN stages =>
      LET speak == stages[env_stage].speak
          out == format_output(speak, env_values) IN
      /\ PlainLiteral(speak) =>
            \A values \in FormatValues \cup {env_values} :
               /\ format_output(speak, values).ok
               /\ format_output(speak, values).val = Unquoted(speak)
      /\ (~PlainLiteral(speak) /\ Valueless(speak, env_values) = {}) =>
            /\ out.ok
            /\ out.val = PartValues(speak, 1, env_values)
      /\ (~PlainLiteral(speak) /\ Valueless(speak, env_values) # {}) =>
            /\ ~out.ok
            /\ out.val = Part(speak, Kth(Valueless(speak, env_values), 1))
      /\ pc = "Dispatch" =>
            /\ out.ok
            /\ events = <<Event("lookup", env_stage), Event("output", out.val)>>
      /\ (pc = "Runtime" /\ events # <<>> /\ Len(events) = 1) => ~out.ok

\* the template "h"+n was emitted as h7 with n bound to the Number 7
C23_Witness ==
    /\ pc = "Dispatch"
    /\ env_stage \in DOMAIN stages
    /\ stages[env_stage].speak = <<"\"", "h", "\"", "+", "n">>
    /\ <<"n">> \in DOMAIN env_values
    /\ env_values[<<"n">>].type = "Number"
    /\ events[2].val = <<"h", "7">>

----------------------------------------------------------------------------
(* C24: frame of interpret.  The variable map changes only when an Input   *)
(* transition executes, and then only at the key varName of that           *)
(* transition; Match transitions (EMPTY or pattern-matched), speak         *)
(* evaluation and every failing step leave all variables unchanged, and    *)
(* the Stage Map is never modified by interpretation.                      *)

\* a step of interpret
InterpretStep == parse_result = "Ok" /\ pc' # pc

\* the two variable maps agree at every key but `name`
SameExceptAt(name) ==
    \A other \in (DOMAIN env_values \cup DOMAIN env_values') \ {name} :
       /\ other \in DOMAIN env_values
       /\ other \in DOMAIN env_values'
       /\ env_values'[other] = env_values[other]

C24_InterpretFrame ==
    [][ InterpretStep =>
          /\ stages' = stages
          /\ env_values' # env_values =>
                /\ InputExecuted
                /\ SameExceptAt(stages[env_stage].transition.block.input_var)
          /\ InputExecuted =>
                SameExceptAt(stages[env_stage].transition.block.input_var)
          /\ pc = "Loop" => env_values' = env_values
          /\ (pc \in {"Dispatch", "Reading"} /\ stages[env_stage].transition.kind = "Match")
                => env_values' = env_values
          /\ pc' \in {"Runtime", "Panic", "Exited"} => env_values' = env_values ]_vars

\* two Input transitions have run: the second bound its variable and kept the
\* value the first had bound to the other one
C24_Witness ==
    /\ pc = "Ok"
    /\ DOMAIN env_values = {<<"n">>, <<"h">>}
    /\ env_values[<<"n">>] # env_values[<<"h">>]
    /\ Kinds(events) = <<"lookup", "output", "read", "transition">>

----------------------------------------------------------------------------
(* C25: raw terminal mode is on only while a read_line call is in          *)
(* progress: read_line enables it on entry and restores normal mode on     *)
(* every exit path, that is before returning the line on Enter and before  *)
(* terminating the process on Escape; so whenever the interpreter emits a  *)
(* speak line, returns success, or returns a RuntimeError, the terminal is *)
(* in normal mode.                                                         *)

\* read_line is in progress
InReadLine == pc = "Reading"

----------------------------------------------------------------------------
(* C26: after any successful parse on a fresh parser every StageBlock of   *)
(* the Stage Map is well formed: its stage field equals its map key and    *)
(* its transition is either an Input block or a Match list with at least   *)
(* one arm (never a Match list without arms, never a missing transition);  *)
(* while parsing, a NEXT in a match group never finds an Input transition  *)
(* already accumulated for the stage.                                      *)

WellFormed(name, block) ==
    /\ block.stage = name
    /\ \/ /\ block.transition.kind = "Input"
          /\ DOMAIN block.transition = {"kind", "block"}
       \/ /\ block.transition.kind = "Match"
          /\ DOMAIN block.transition = {"kind", "blocks"}
          /\ Len(block.transition.blocks) >= 1

\* a NEXT would now run the Status::Match | Status::Default arm
InMatchGroup == parse_result = "Running" /\ status \in {"Match", "Default"}

C26_StageBlocksWellFormed ==
    /\ \A name \in DOMAIN stages : WellFormed(name, stages[name])
    /\ InMatchGroup =>
          \/ current_transition = None
          \/ Unwrap(current_transition).kind = "Match"

\* an accepted stream whose Stage Map holds an Input stage and a Match stage
C26_Witness ==
    /\ parse_result = "Ok"
    /\ \E a, b \in DOMAIN stages :
          /\ stages[a].transition.kind = "Input"
          /\ stages[b].transition.kind = "Match"

----------------------------------------------------------------------------
(* C27: when parse returns ParseError at some command, the Stage Map is    *)
(* not rolled back: it contains exactly the stages that were flushed by a  *)
(* later STAGE command before the offending command, and it does not       *)
(* contain the stage that was under construction when the error occurred;  *)
(* commands after the offending one are never processed.                   *)

\* the definitions among cmds[1..limit] that a later STAGE of cmds[1..limit] closed
FlushedDefinitions(cmds, limit) ==
    {d \in 1..(limit - 1) :
        /\ cmds[d].ctype = "STAGE"
        /\ cmds[d + 1].ctype = "SPEAK"
        /\ \E k \in (d + 1)..limit : cmds[k].ctype = "STAGE"}

\* the StageBlock that the definition opened at d declares
DeclaredBlock(cmds, d) ==
    [stage |-> cmds[d].arg,
     speak |-> cmds[d + 1].arg,
     transition |->
        IF cmds[d + 2].ctype = "INPUT"
          THEN [kind |-> "Input",
                block |-> [input_var |-> cmds[d + 2].arg, next_stage |-> cmds[d + 3].arg]]
          ELSE [kind |-> "Match",
                blocks |-> DeclaredArms(cmds, d, StageEnd(cmds, d))]]

\* the parser as it is now
ParserNow ==
    [status |-> status, current_stage |-> current_stage, current_speak |-> current_speak,
     current_transition |-> current_transition, current_pattern |-> current_pattern,
     stages |-> stages, result |-> parse_result]

\* one command of each kind, to follow the offending one
FollowingCommands ==
    {[ctype |-> "STAGE", arg |-> "A", line |-> Len(commands) + 1],
     [ctype |-> "SPEAK", arg |-> <<"\"", "h", "\"">>, line |-> Len(commands) + 1],
     [ctype |-> "MATCH", arg |-> <<"\"", "y", "\"">>, line |-> Len(commands) + 1],
     [ctype |-> "DEFAULT", arg |-> <<>>, line |-> Len(commands) + 1],
     [ctype |-> "INPUT", arg |-> <<"n">>, line |-> Len(commands) + 1],
     [ctype |-> "NEXT", arg |-> "EXIT", line |-> Len(commands) + 1]}

C27_ErrorKeepsFlushedStages ==
    parse_result = "Parse" =>
      LET limit == Len(commands) - 1
          flushed == FlushedDefinitions(commands, limit)
          open == StageStart(commands, limit) IN
      /\ DOMAIN stages = {commands[d].arg : d \in flushed}
      /\ \A name \in DOMAIN stages :
            LET defs == {d \in flushed : commands[d].arg = name} IN
            stages[name] =
               DeclaredBlock(commands, CHOOSE d \in defs : \A m \in defs : m <= d)
      /\ open \notin flushed
      /\ (open > 0 /\ \A d \in flushed : commands[d].arg # commands[open].arg)
            => commands[open].arg \notin DOMAIN stages
      /\ \A cmd \in FollowingCommands :
            ParseFrom(ParserNow, <<cmd>>, 1) = ParserNow

\* the stream of test_dsl_parser_error in small: a complete stage, a second
\* stage with its SPEAK, and a second SPEAK that is refused
C27_Witness ==
    /\ parse_result = "Parse"
    /\ Len(commands) = 7
    /\ commands[7].ctype = "SPEAK"
    /\ commands[5].ctype = "STAGE"
    /\ commands[5].arg = "A"
    /\ DOMAIN stages = {"initial"}

----------------------------------------------------------------------------
(* C28: if an accepted command stream defines two complete stages with the *)
(* same name, parse returns Ok and the Stage Map holds a single StageBlock *)
(* under that name, namely the one defined later in the stream; the        *)
(* earlier definition is replaced without any error.                       *)

\* the stream with every stage given a name of its own (the index of its STAGE)
Renamed(cmds) ==
    [i \in 1..Len(cmds) |->
        IF cmds[i].ctype = "STAGE" THEN [cmds[i] EXCEPT !.arg = i] ELSE cmds[i]]

\* the names that the stream defines more than once
DefinedTwice(cmds) == {name \in StageNames : Cardinality(Definitions(cmds, name)) >= 2}

C28_LaterDefinitionReplaces ==
    (pc = "Idle" /\ parse_result # "Running" /\ DefinedTwice(commands) # {}) =>
       /\ parse(Renamed(commands)).result = parse_result
       /\ parse_result = "Ok" =>
             \A name \in DefinedTwice(commands) :
                LET defs == Definitions(commands, name) IN
                /\ name \in DOMAIN stages
                /\ stages[name] =
                      DeclaredBlock(commands, CHOOSE d \in defs : \A m \in defs : m <= d)

\* an accepted stream that defines the stage initial twice, with different speak
\* lines: the Stage Map has the second one
C28_Witness ==
    /\ parse_result = "Ok"
    /\ Definitions(commands, "initial") = {1, 5}
    /\ commands[2].arg # commands[6].arg
    /\ DOMAIN stages = {"initial"}
    /\ stages["initial"].speak = commands[6].arg

----------------------------------------------------------------------------
(* C29: at end of stream an unfinished trailing group is discarded without *)
(* error.  If the last stage already has a speak line and at least one     *)
(* completed transition, it is inserted with the completed transition      *)
(* only, even when the stream ends on a MATCH or DEFAULT that no NEXT      *)
(* followed (that pending pattern is dropped); and if the stream ends      *)
(* right after a STAGE command with no SPEAK, that stage is absent from    *)
(* the map.  In both cases parse returns Ok and all earlier stages are     *)
(* present.                                                                *)

\* every STAGE command of the stream that its SPEAK follows
AllDefinitions(cmds) ==
    {d \in 1..(Len(cmds) - 1) : cmds[d].ctype = "STAGE" /\ cmds[d + 1].ctype = "SPEAK"}

\* the map holds, under each name the stream defines, the block that the last
\* definition of the name declares with its completed groups, and nothing else
HoldsDeclared(map, cmds) ==
    /\ DOMAIN map = {cmds[d].arg : d \in AllDefinitions(cmds)}
    /\ \A name \in DOMAIN map :
          LET defs == {d \in AllDefinitions(cmds) : cmds[d].arg = name} IN
          map[name] = DeclaredBlock(cmds, CHOOSE d \in defs : \A m \in defs : m <= d)

\* the last stage of the stream has its SPEAK and a completed group
LastStageHasTransition(cmds) ==
    LET open == StageStart(cmds, Len(cmds)) IN
    /\ open > 0
    /\ open \in AllDefinitions(cmds)
    /\ \E k \in (open + 2)..Len(cmds) : cmds[k].ctype = "NEXT"

\* what parse does after the for loop
EndOfStream(st) ==
    IF st.result # "Running" THEN st
    ELSE IF Flush(st).result = "Panic" THEN Flush(st)
    ELSE [Flush(st) EXCEPT !.result = "Ok"]

\* a pattern that no NEXT follows
PendingPatterns ==
    {[ctype |-> "MATCH", arg |-> <<"\"", "y", "\"">>, line |-> Len(commands) + 1],
     [ctype |-> "DEFAULT", arg |-> <<>>, line |-> Len(commands) + 1]}

C29_TrailingGroupIsDropped ==
    /\ (StreamEnded /\ commands # <<>>
          /\ Last(commands).ctype \in {"MATCH", "DEFAULT"}
          /\ LastStageHasTransition(commands)) =>
          /\ parse_result = "Ok"
          /\ HoldsDeclared(stages, commands)
          /\ LET block == stages[commands[StageStart(commands, Len(commands))].arg] IN
             /\ block.transition.kind = "Match"
             /\ \A i \in 1..Len(block.transition.blocks) :
                   \E k \in 2..Len(commands) :
                      /\ commands[k].ctype = "NEXT"
                      /\ commands[k].arg = block.transition.blocks[i].next_stage
    /\ (StreamEnded /\ commands # <<>> /\ Last(commands).ctype = "STAGE") =>
          /\ parse_result = "Ok"
          /\ HoldsDeclared(stages, commands)
          /\ (\A d \in AllDefinitions(commands) : commands[d].arg # Last(commands).arg)
                => Last(commands).arg \notin DOMAIN stages
    /\ (parse_result = "Running" /\ status = "MatchNext"
          /\ Len(commands) = MaxCommands) =>
          \A pending \in PendingPatterns :
             /\ EndOfStream(ParseStep(ParserNow, pending)).result = "Ok"
             /\ EndOfStream(ParseStep(ParserNow, pending)).stages
                   = EndOfStream(ParserNow).stages

\* the stream ended on a DEFAULT without NEXT after one completed arm: the stage
\* is in the map with that arm only
C29_Witness ==
    /\ parse_result = "Ok"
    /\ Len(commands) = 5
    /\ commands[3].ctype = "MATCH"
    /\ commands[5].ctype = "DEFAULT"
    /\ DOMAIN stages = {"initial"}
    /\ Len(stages["initial"].transition.blocks) = 1
    /\ stages["initial"].transition.blocks[1].pattern = commands[3].arg

----------------------------------------------------------------------------
(* C30: interpret does not reset the Runtime Environment: it starts from   *)
(* whatever currentStage the Interpreter holds, which is "initial" only    *)
(* for a freshly constructed Interpreter.  After a successful run          *)
(* currentStage is "EXIT" and the variables are kept, so a second          *)
(* interpret call on the same Interpreter (with a Stage Map that has no    *)
(* key EXIT) fails at once with RuntimeError "Stage not found" without     *)
(* emitting any output; after a failed run a second call resumes at the    *)
(* failing stage.                                                          *)

\* the step is the entry of a further call of interpret
CalledAgain == pc \in {"Ok", "Runtime"} /\ pc' = "Loop"

\* the stage at which the run that returned RuntimeError failed
FailingStage == IF events = <<>> THEN env_stage ELSE Visited

C30_InterpretKeepsEnvironment ==
    [][ /\ (pc = "Idle" /\ pc' = "Loop") =>
              (env_stage = "initial" /\ env_values = << >>)
        /\ pc' = "Ok" => env_stage' = "EXIT"
        /\ CalledAgain =>
              /\ env_stage' = env_stage
              /\ env_values' = env_values
              /\ pc = "Ok" => env_stage' = "EXIT"
              /\ pc = "Runtime" => env_stage' = FailingStage
        /\ (pc = "Loop" /\ env_stage # "initial" /\ env_stage \in DOMAIN stages
               /\ pc' = "Dispatch") =>
              events'[1] = Event("lookup", env_stage)
        /\ (pc = "Loop" /\ env_stage = "EXIT" /\ "EXIT" \notin DOMAIN stages) =>
              /\ pc' = "Runtime"
              /\ events' = <<>>
              /\ env_stage' = "EXIT"
              /\ env_values' = env_values ]_vars

\* a second call after a successful run that had bound n: it has failed at the
\* lookup of EXIT, nothing was emitted, n is still bound
C30_Witness ==
    /\ pc = "Runtime"
    /\ env_stage = "EXIT"
    /\ "EXIT" \notin DOMAIN stages
    /\ events = <<>>
    /\ <<"n">> \in DOMAIN env_values

----------------------------------------------------------------------------
(* Runs of interpret followed for ever, on the scripts of a few complete   *)
(* stage definitions                                                       *)

\* the stage definitions of the scripts whose run is followed for ever:
\* STAGE name, SPEAK speak, one group (MATCH EMPTY, MATCH "y" or INPUT n), NEXT
DefinitionShapes ==
    {[name |-> name, speak |-> speak, group |-> group[1][1], arg |-> group[1][2],
      next_stage |-> group[2]] :
        name \in {"initial", "A"},
        speak \in {Str_hello, Str_n},
        group \in ({<<"MATCH", EMPTY>>} \X StageNames)
                     \cup ({<<"MATCH", Str_y>>} \X {"initial", "EXIT"})
                     \cup ({<<"INPUT", Str_n>>} \X {"A", "EXIT"})}

\* the commands of the definitions, one per line
CommandsOf(definitions) ==
    [i \in 1..(4 * Len(definitions)) |->
        LET shape == definitions[((i - 1) \div 4) + 1] IN
        CASE i % 4 = 1 -> [ctype |-> "STAGE", arg |-> shape.name, line |-> i]
          [] i % 4 = 2 -> [ctype |-> "SPEAK", arg |-> shape.speak, line |-> i]
          [] i % 4 = 3 -> [ctype |-> shape.group, arg |-> shape.arg, line |-> i]
          [] OTHER     -> [ctype |-> "NEXT", arg |-> shape.next_stage, line |-> i]]

CycleScripts ==
    {CommandsOf(definitions) :
        definitions \in UNION {[1..k -> DefinitionShapes] : k \in 1..MaxDefinitions}}

\* DSL::run after parse has returned: the parser as parse left it on the script,
\* a fresh Interpreter
CycleStart ==
    /\ commands \in CycleScripts
    /\ status = parse(commands).status
    /\ current_stage = parse(commands).current_stage
    /\ current_speak = parse(commands).current_speak
    /\ current_transition = parse(commands).current_transition
    /\ current_pattern = parse(commands).current_pattern
    /\ stages = parse(commands).stages
    /\ parse_result = parse(commands).result
    /\ diag = None
    /\ env_stage = "initial"
    /\ env_values = << >>
    /\ pc = "Idle"
    /\ raw_mode = FALSE
    /\ events = <<>>
    /\ source = "Scanned"
    /\ launch = "call"
    /\ exit_code = None
    /\ ScannerInit

CycleNext ==
    \/ InterpretCall
    \/ InterpretSpeak
    \/ InterpretDispatch
    \/ \E line \in Lines : InterpretEnter(line)
    \/ InterpretEsc

\* the process keeps running: a step of the loop of interpret that waits for no
\* input is eventually taken
CycleSpec ==
    /\ CycleStart
    /\ [][CycleNext]_vars
    /\ WF_vars(InterpretSpeak)
    /\ WF_vars(InterpretDispatch)

----------------------------------------------------------------------------
(* C31: termination is not guaranteed by user input alone.  If the stages  *)
(* reachable from "initial" enter a cycle in which every stage has a       *)
(* single EMPTY arm (A -EMPTY-> B -EMPTY-> A) and every speak template     *)
(* resolves, interpret never returns and never reads input, emitting       *)
(* output lines forever; so interpret terminates on every input sequence   *)
(* only if no such input-free cycle is reachable.                          *)

\* the stage has a single EMPTY arm and its speak template resolves
InputFree(name) ==
    /\ name \in DOMAIN stages
    /\ name # "EXIT"
    /\ stages[name].transition.kind = "Match"
    /\ Len(stages[name].transition.blocks) = 1
    /\ stages[name].transition.blocks[1].pattern = <<"E", "M", "P", "T", "Y">>
    /\ ~ReferencesUndefined(stages[name].speak, env_values)

\* the stages from which the EMPTY arms lead round an input-free cycle for ever
InputFreeCycle ==
    UNION {T \in SUBSET (DOMAIN stages) :
              \A name \in T :
                 /\ InputFree(name)
                 /\ stages[name].transition.blocks[1].next_stage \in T}

\* interpret is running and its cursor is in such a cycle
Trapped == parse_result = "Ok" /\ pc \in {"Loop", "Dispatch"} /\ env_stage \in InputFreeCycle

\* a speak line of a stage of the cycle has just been emitted
TrappedSpoke == Trapped /\ pc = "Dispatch" /\ Kinds(events) = <<"lookup", "output">>

\* the stage of the cycle has handed over to the next one
TrappedMoved == Trapped /\ pc = "Loop" /\ Kinds(events) = <<"lookup", "output", "transition">>

C31_InputFreeCycleNeverReturns ==
    /\ [][ Trapped =>
              /\ Trapped'
              /\ pc' # pc
              /\ ~raw_mode'
              /\ EventsOf(events', "read") = {}
              /\ env_values' = env_values ]_vars
    /\ (Trapped /\ pc = "Loop") ~> TrappedSpoke
    /\ TrappedSpoke ~> TrappedMoved

\* the cycle initial -EMPTY-> A -EMPTY-> initial, with A just spoken
C31_Witness ==
    /\ TrappedSpoke
    /\ env_stage = "A"
    /\ stages["A"].transition.blocks[1].next_stage = "initial"
    /\ stages["initial"].transition.blocks[1].next_stage = "A"

====
